---- MODULE Spec2Model ----
(***************************************************************************)
(* Bookmark store and resolver of aura-cli-go (internal/db) and the `go`   *)
(* command built on it (internal/cmd/go.go).                               *)
(*                                                                         *)
(* Strings are sequences of one-character strings, so that lowercasing,    *)
(* trimming, SQL LIKE matching and byte-order comparison are computed      *)
(* character by character.  The alphabet is ASCII.                         *)
(*                                                                         *)
(* The two SQLite tables are sequences in rowid order, which is the order  *)
(* of a table scan.  A sort (ORDER BY) is stable with respect to the scan: *)
(* rows that compare equal leave the sorter in scan order.                 *)
(***************************************************************************)
EXTENDS Integers, Sequences, FiniteSets, TLC

VARIABLES
    bookmarks,   \* table bookmarks: rows [ID, Alias, Path, CreatedAt] in rowid order
    nextId,      \* AUTOINCREMENT counter of table bookmarks
    history,     \* table navigation_history: rows [path, accessed_at] in rowid order
    out,         \* what the last operation returned / wrote (observable result)
    proc         \* the running process: its database handle or its goroutines

vars == <<bookmarks, nextId, history, out, proc>>

----------------------------------------------------------------------------
(* Bounds of the model *)

MaxId == 2          \* at most MaxId rows are ever inserted into bookmarks (Spec, SpecStore)
MaxHistory == 2     \* at most MaxHistory rows in navigation_history
MaxRows == 3        \* rows of both tables together in a drawn store (SpecSearch)
MaxStoreId == 3     \* at most MaxStoreId rows are ever inserted into bookmarks (SpecAdd)

(* Program constant: LIMIT 10 of the history query *)
HistoryLimit == 10

----------------------------------------------------------------------------
(* Input universes *)

Aliases == { <<"a">>, <<"A", "b">> }
Paths   == { <<"/", "a">>, <<"/", "b">> }
Queries == { <<"a">>, <<" ", "A">>, <<"/">> }

\* the richer universes of the drawn stores
SearchAliases == Aliases \cup { <<"b", "_">>, <<"_", "b">> }
SearchQueries == Queries \cup { <<"_">>, <<" ">>, <<>> }

\* the universes of the store operations and of `bookmark add`
StoreAliases == Aliases \cup { <<>> }
CmdPaths == { <<"/", "b">>, <<".">>, <<"/", "a", "/">> }
This == <<"t", "h", "i", "s">>
As == <<"a", "s">>
CmdArgs ==
    { <<>>, << <<"a">> >>, <<This, As, <<"A", "b">> >> }
        \cup { <<a, p>> : a \in { <<"a">>, <<>> }, p \in CmdPaths }
Wds == { <<"/", "a">> }
AddFaults == { "none", "Getwd", "New", "GetBookmark", "RemoveBookmark", "AddBookmark" }
DirStats == { "dir", "file", "notexist", "error" }

Faults  == { "none", "New", "GetBookmark", "FuzzySearch", "AddNavigationHistory" }
Stats   == { "ok", "notexist", "error" }

----------------------------------------------------------------------------
(* Strings *)

\* byte value of a character (BINARY collation, Go string comparison)
Code(c) ==
    CASE c = " " -> 32
      [] c = "%" -> 37
      [] c = "/" -> 47
      [] c = ":" -> 58
      [] c = "A" -> 65
      [] c = "B" -> 66
      [] c = "_" -> 95
      [] c = "a" -> 97
      [] c = "b" -> 98
      [] c = "h" -> 104
      [] c = "i" -> 105
      [] c = "o" -> 111
      [] c = "r" -> 114
      [] c = "s" -> 115
      [] c = "t" -> 116
      [] c = "y" -> 121

LowerChar(c) ==
    CASE c = "A" -> "a"
      [] c = "B" -> "b"
      [] c = "N" -> "n"
      [] c = "T" -> "t"
      [] c = "W" -> "w"
      [] OTHER -> c

\* strings.ToLower and SQL LOWER()
ToLower(s) == [i \in DOMAIN s |-> LowerChar(s[i])]

RECURSIVE TrimLeft(_)
TrimLeft(s) ==
    IF s # <<>> /\ Head(s) = " " THEN TrimLeft(Tail(s)) ELSE s

RECURSIVE TrimRight(_)
TrimRight(s) ==
    IF s # <<>> /\ s[Len(s)] = " " THEN TrimRight(SubSeq(s, 1, Len(s) - 1)) ELSE s

\* strings.TrimSpace
TrimSpace(s) == TrimRight(TrimLeft(s))

\* strings.HasPrefix
HasPrefix(s, p) == Len(p) <= Len(s) /\ SubSeq(s, 1, Len(p)) = p

\* strings.Contains: literal substring
Contains(s, sub) ==
    \E i \in 0..(Len(s) - Len(sub)) : SubSeq(s, i + 1, i + Len(sub)) = sub

\* byte-wise lexicographic order, s < t
RECURSIVE StrLess(_, _)
StrLess(s, t) ==
    IF t = <<>> THEN FALSE
    ELSE IF s = <<>> THEN TRUE
    ELSE IF Code(Head(s)) # Code(Head(t)) THEN Code(Head(s)) < Code(Head(t))
    ELSE StrLess(Tail(s), Tail(t))

\* SQLite `s LIKE pat`: % matches any run of characters, _ any one character,
\* every other character matches itself ignoring ASCII case; no ESCAPE.
RECURSIVE Like(_, _)
Like(s, pat) ==
    IF pat = <<>> THEN s = <<>>
    ELSE IF Head(pat) = "%"
         THEN Like(s, Tail(pat)) \/ (s # <<>> /\ Like(Tail(s), pat))
    ELSE /\ s # <<>>
         /\ (Head(pat) = "_" \/ LowerChar(Head(pat)) = LowerChar(Head(s)))
         /\ Like(Tail(s), Tail(pat))

HistoryPrefix == <<"h", "i", "s", "t", "o", "r", "y", ":">>

\* sql.ErrNoRows.Error(): "sql: no rows in result set"
ErrNoRows ==
    <<"s", "q", "l", ":", " ", "n", "o", " ", "r", "o", "w", "s", " ", "i", "n", " ",
      "r", "e", "s", "u", "l", "t", " ", "s", "e", "t">>

\* the text of another driver error: "database is locked"
ErrLocked ==
    <<"d", "a", "t", "a", "b", "a", "s", "e", " ", "i", "s", " ",
      "l", "o", "c", "k", "e", "d">>

\* the text GetBookmark looks for in the error of row.Scan: "no rows"
NoRows == <<"n", "o", " ", "r", "o", "w", "s">>

\* strings.Join(elems, " ")
RECURSIVE JoinSpace(_)
JoinSpace(elems) ==
    IF elems = <<>> THEN <<>>
    ELSE IF Len(elems) = 1 THEN elems[1]
    ELSE elems[1] \o <<" ">> \o JoinSpace(Tail(elems))

\* the elements of a path between its separators, cur being the element read so far
RECURSIVE Components(_, _)
Components(s, cur) ==
    IF s = <<>> THEN <<cur>>
    ELSE IF Head(s) = "/" THEN <<cur>> \o Components(Tail(s), <<>>)
    ELSE Components(Tail(s), Append(cur, Head(s)))

\* filepath.Clean on the elements of a rooted path: empty and "." elements are
\* dropped, ".." drops the element before it (and itself at the root)
RECURSIVE CleanComponents(_, _)
CleanComponents(comps, kept) ==
    IF comps = <<>> THEN kept
    ELSE IF Head(comps) = <<>> \/ Head(comps) = <<".">>
    THEN CleanComponents(Tail(comps), kept)
    ELSE IF Head(comps) = <<".", ".">>
    THEN CleanComponents(Tail(comps), SubSeq(kept, 1, Len(kept) - 1))
    ELSE CleanComponents(Tail(comps), Append(kept, Head(comps)))

RECURSIVE JoinRooted(_)
JoinRooted(comps) ==
    IF comps = <<>> THEN <<>>
    ELSE <<"/">> \o Head(comps) \o JoinRooted(Tail(comps))

\* filepath.Clean of a rooted path
CleanRooted(path) ==
    IF CleanComponents(Components(path, <<>>), <<>>) = <<>> THEN <<"/">>
    ELSE JoinRooted(CleanComponents(Components(path, <<>>), <<>>))

\* filepath.Abs in the working directory wd (Unix)
Abs(path, wd) ==
    IF HasPrefix(path, <<"/">>) THEN CleanRooted(path)
    ELSE CleanRooted(wd \o <<"/">> \o path)

----------------------------------------------------------------------------
(* Sequences *)

Take(s, n) == SubSeq(s, 1, IF Len(s) < n THEN Len(s) ELSE n)

Range(s) == { s[i] : i \in DOMAIN s }

----------------------------------------------------------------------------
(* Store queries (internal/db/bookmarks.go), file mode *)

NoBookmark == <<>>     \* the nil *Bookmark, a found bookmark b is <<b>>

\* SELECT ... FROM bookmarks WHERE alias = ? (BINARY comparison)
GetBookmark(alias) ==
    LET rows == SelectSeq(bookmarks, LAMBDA b : b.Alias = alias)
    IN  IF rows = <<>> THEN NoBookmark ELSE <<rows[1]>>

RECURSIVE OrderByAlias(_)

\* no ORDER BY: the rows in scan order
OrderByRowid(rows) == rows

\* ORDER BY alias: ascending byte order
OrderByAlias(rows) ==
    IF rows = <<>> THEN <<>>
    ELSE LET m == CHOOSE i \in DOMAIN rows :
                    \A j \in DOMAIN rows :
                        j # i => \/ StrLess(rows[i].Alias, rows[j].Alias)
                                 \/ (rows[i].Alias = rows[j].Alias /\ i < j)
         IN  <<rows[m]>> \o
             OrderByAlias(SubSeq(rows, 1, m - 1) \o SubSeq(rows, m + 1, Len(rows)))

ListBookmarks == OrderByAlias(bookmarks)

\* a WHERE clause that compares the path only
searchWhereByPath(b, query) ==
    Like(ToLower(b.Path), <<"%">> \o ToLower(query) \o <<"%">>)

\* WHERE LOWER(alias) LIKE ? OR LOWER(path) LIKE ?   with ? = "%" + query + "%"
searchWhere(b, query) ==
    LET queryPattern == <<"%">> \o ToLower(query) \o <<"%">>
    IN  Like(ToLower(b.Alias), queryPattern) \/ Like(ToLower(b.Path), queryPattern)

\* the CASE expression of the ORDER BY
searchRank(b, query) ==
    LET exactMatch  == ToLower(query)
        prefixMatch == ToLower(query) \o <<"%">>
    IN  IF ToLower(b.Alias) = exactMatch THEN 1
        ELSE IF Like(ToLower(b.Alias), prefixMatch) THEN 2
        ELSE IF Like(ToLower(b.Path), prefixMatch) THEN 3
        ELSE 4

\* ORDER BY CASE ... END over the rows the WHERE clause selected
OrderByRank(matched, query) ==
    LET ofRank(k) == SelectSeq(matched, LAMBDA b : searchRank(b, query) = k)
    IN  ofRank(1) \o ofRank(2) \o ofRank(3) \o ofRank(4)

searchBookmarks(query) ==
    OrderByRank(SelectSeq(bookmarks, LAMBDA b : searchWhere(b, query)), query)

\* ORDER BY accessed_at DESC
RECURSIVE OrderByAccessedDesc(_)
OrderByAccessedDesc(rows) ==
    IF rows = <<>> THEN <<>>
    ELSE LET mx == CHOOSE t \in { rows[i].accessed_at : i \in DOMAIN rows } :
                     \A i \in DOMAIN rows : rows[i].accessed_at <= t
         IN  SelectSeq(rows, LAMBDA r : r.accessed_at = mx) \o
             OrderByAccessedDesc(SelectSeq(rows, LAMBDA r : r.accessed_at # mx))

\* SELECT DISTINCT path: the scan keeps the first row of every path
DistinctPath(rows) ==
    LET keep == { i \in DOMAIN rows : \A j \in 1..(i - 1) : rows[j].path # rows[i].path }
        RECURSIVE Pick(_)
        Pick(i) == IF i > Len(rows) THEN <<>>
                   ELSE (IF i \in keep THEN <<rows[i]>> ELSE <<>>) \o Pick(i + 1)
    IN  Pick(1)

searchHistory(query) ==
    LET queryPattern == <<"%">> \o ToLower(query) \o <<"%">>
        matched == SelectSeq(history, LAMBDA r : Like(ToLower(r.path), queryPattern))
        rows    == Take(OrderByAccessedDesc(DistinctPath(matched)), HistoryLimit)
    IN  [i \in 1..Len(rows) |->
            [ID |-> 0 - i, Alias |-> HistoryPrefix \o rows[i].path, Path |-> rows[i].path,
             CreatedAt |-> 0]]

\* the history matches appended to the bookmark matches
orHistoryAppended(found, query) == found \o searchHistory(query)

\* lines 233-239, found being the answer of searchBookmarks(query)
orHistory(found, query) ==
    IF Len(found) > 0 THEN found ELSE searchHistory(query)

\* FuzzySearch without the shortcut for the empty query
searchNormalizedAlways(query) == orHistory(searchBookmarks(query), query)

\* lines 223-239, query being normalized
searchNormalized(query) ==
    IF query = <<>> THEN ListBookmarks
    ELSE orHistory(searchBookmarks(query), query)

FuzzySearch(query) == searchNormalized(ToLower(TrimSpace(query)))

----------------------------------------------------------------------------
(* The `go` command (internal/cmd/go.go, runGo) *)

Line(kind, alias, path) == [kind |-> kind, alias |-> alias, path |-> path]
Call(fn, arg) == [fn |-> fn, arg |-> arg]

\* what one invocation did: the locals bookmark and results of runGo, what it
\* printed, the process exit status, the store calls it made in order and the
\* history rows it inserted
Outcome(bookmark, results, stdout, stderr, exit, calls, writes) ==
    [bookmark |-> bookmark, results |-> results, stdout |-> stdout,
     stderr |-> stderr, exit |-> exit, calls |-> calls, writes |-> writes]

\* a non-nil error returned by RunE: cobra prints it on stderr, main exits 1
Failed(bookmark, results, stderr, msg, calls, writes) ==
    Outcome(bookmark, results, <<>>, stderr \o <<Line(msg, <<>>, <<>>)>>, 1,
            calls, writes)

\* navigate, printing the path before the check on disk
navigatePrintsBeforeStat(bookmark, results, target, fault, stat, calls) ==
    LET histOk == fault # "AddNavigationHistory"
        warn   == IF histOk THEN <<>>
                  ELSE <<Line("Warning: failed to add to navigation history", <<>>, <<>>)>>
        writes == IF histOk THEN <<target.Path>> ELSE <<>>
        calls2 == calls \o <<Call("AddNavigationHistory", target.Path),
                             Call("Stat", target.Path), Call("Close", <<>>)>>
    IN  IF stat = "notexist"
        THEN Outcome(bookmark, results, <<target.Path>>,
                     warn \o <<Line("Error: path no longer exists", <<>>, target.Path),
                               Line("path not found", <<>>, <<>>)>>,
                     1, calls2, writes)
        ELSE Outcome(bookmark, results, <<target.Path>>, warn, 0, calls2, writes)

\* navigate, checking the path on disk before recording the visit
navigateStatFirst(bookmark, results, target, fault, stat, calls) ==
    LET histOk == fault # "AddNavigationHistory"
        warn   == IF histOk THEN <<>>
                  ELSE <<Line("Warning: failed to add to navigation history", <<>>, <<>>)>>
        writes == IF histOk THEN <<target.Path>> ELSE <<>>
    IN  IF stat = "notexist"
        THEN Failed(bookmark, results,
                    <<Line("Error: path no longer exists", <<>>, target.Path)>>,
                    "path not found",
                    calls \o <<Call("Stat", target.Path), Call("Close", <<>>)>>, <<>>)
        ELSE Outcome(bookmark, results, <<target.Path>>, warn, 0,
                     calls \o <<Call("Stat", target.Path),
                                Call("AddNavigationHistory", target.Path),
                                Call("Close", <<>>)>>,
                     writes)

\* navigate, returning the error of a failed history write
navigateHistoryFatal(bookmark, results, target, fault, stat, calls) ==
    LET calls2 == calls \o <<Call("AddNavigationHistory", target.Path)>>
    IN  IF fault = "AddNavigationHistory"
        THEN Failed(bookmark, results, <<>>, "failed to add to navigation history",
                    calls2 \o <<Call("Close", <<>>)>>, <<>>)
        ELSE IF stat = "notexist"
        THEN Failed(bookmark, results,
                    <<Line("Error: path no longer exists", <<>>, target.Path)>>,
                    "path not found",
                    calls2 \o <<Call("Stat", target.Path), Call("Close", <<>>)>>,
                    <<target.Path>>)
        ELSE Outcome(bookmark, results, <<target.Path>>, <<>>, 0,
                     calls2 \o <<Call("Stat", target.Path), Call("Close", <<>>)>>,
                     <<target.Path>>)

\* lines 288-304 and 318-333: the single navigation target `target`
navigate(bookmark, results, target, fault, stat, calls) ==
    LET histOk == fault # "AddNavigationHistory"
        warn   == IF histOk THEN <<>>
                  ELSE <<Line("Warning: failed to add to navigation history", <<>>, <<>>)>>
        writes == IF histOk THEN <<target.Path>> ELSE <<>>
        calls2 == calls \o <<Call("AddNavigationHistory", target.Path),
                             Call("Stat", target.Path), Call("Close", <<>>)>>
    IN  IF stat = "notexist"
        THEN Failed(bookmark, results,
                    warn \o <<Line("Error: path no longer exists", <<>>, target.Path)>>,
                    "path not found", calls2, writes)
        ELSE Outcome(bookmark, results, <<target.Path>>, warn, 0, calls2, writes)

\* ambiguous, navigating to the first result
ambiguousPicksFirst(query, results, calls) ==
    Outcome(NoBookmark, results, <<results[1].Path>>, <<>>, 0,
            calls \o <<Call("AddNavigationHistory", results[1].Path),
                       Call("Stat", results[1].Path), Call("Close", <<>>)>>,
            <<results[1].Path>>)

\* lines 335-345: several results
ambiguous(query, results, calls) ==
    LET listing == [i \in DOMAIN results |->
                      IF HasPrefix(results[i].Alias, HistoryPrefix)
                      THEN Line("candidate", <<>>, results[i].Path)
                      ELSE Line("candidate", results[i].Alias, results[i].Path)]
    IN  Failed(NoBookmark, results,
               <<Line("Multiple matches found", <<>>, query)>> \o listing \o
               <<Line("Please be more specific", <<>>, <<>>)>>,
               "ambiguous query", calls \o <<Call("Close", <<>>)>>, <<>>)

\* lines 306-346: no exact match, results being the answer of FuzzySearch
fuzzy(query, results, fault, stat, calls) ==
    LET calls2  == calls \o <<Call("FuzzySearch", query)>>
    IN  IF fault = "FuzzySearch"
        THEN Failed(NoBookmark, <<>>, <<>>, "search error",
                    calls2 \o <<Call("Close", <<>>)>>, <<>>)
        ELSE IF Len(results) = 0
        THEN Failed(NoBookmark, results,
                    <<Line("No bookmarks found matching", <<>>, query)>>,
                    "no matches found", calls2 \o <<Call("Close", <<>>)>>, <<>>)
        ELSE IF Len(results) = 1
        THEN navigate(NoBookmark, results, results[1], fault, stat, calls2)
        ELSE ambiguous(query, results, calls2)

\* runGo, resolving every query by FuzzySearch
runGoFuzzyOnly(query, fault, stat) ==
    LET calls == <<Call("New", <<>>), Call("GetBookmark", query)>>
    IN  IF fault = "New"
        THEN Failed(NoBookmark, <<>>, <<>>, "failed to open database",
                    <<Call("New", <<>>)>>, <<>>)
        ELSE IF fault = "GetBookmark"
        THEN Failed(NoBookmark, <<>>, <<>>, "database error",
                    calls \o <<Call("Close", <<>>)>>, <<>>)
        ELSE fuzzy(query, FuzzySearch(query), fault, stat, calls)

\* lines 273-304: open the store, exact lookup first
runGo(query, fault, stat) ==
    LET bookmark == GetBookmark(query)
        calls    == <<Call("New", <<>>), Call("GetBookmark", query)>>
    IN  IF fault = "New"
        THEN Failed(NoBookmark, <<>>, <<>>, "failed to open database",
                    <<Call("New", <<>>)>>, <<>>)
        ELSE IF fault = "GetBookmark"
        THEN Failed(NoBookmark, <<>>, <<>>, "database error",
                    calls \o <<Call("Close", <<>>)>>, <<>>)
        ELSE IF bookmark # NoBookmark
        THEN navigate(bookmark, <<>>, bookmark[1], fault, stat, calls)
        ELSE fuzzy(query, FuzzySearch(query), fault, stat, calls)

----------------------------------------------------------------------------
(* The `bookmark add` command (internal/cmd/bookmark.go, runBookmarkAdd) *)

\* an insert that stores the alias lowercased
InsertBookmarkLowered(rows, id, alias, path, t) ==
    Append(rows, [ID |-> id, Alias |-> ToLower(alias), Path |-> path, CreatedAt |-> t])

\* INSERT INTO bookmarks (alias, path): id is the AUTOINCREMENT counter,
\* created_at is CURRENT_TIMESTAMP (second t, counted from the zero time.Time)
InsertBookmark(rows, id, alias, path, t) ==
    Append(rows, [ID |-> id, Alias |-> alias, Path |-> path, CreatedAt |-> t])

\* what one invocation did and the table bookmarks it leaves
AddRun(res, rows, id) == [res |-> res, bookmarks |-> rows, nextId |-> id]

\* a non-nil error returned by RunE after stdout was printed
FailedAfter(bookmark, stdout, msg, calls) ==
    Outcome(bookmark, <<>>, stdout, <<Line(msg, <<>>, <<>>)>>, 1, calls, <<>>)

\* an invocation that fails before it writes
Rejected(msg, calls) ==
    AddRun(FailedAfter(NoBookmark, <<>>, msg, calls), bookmarks, nextId)

\* saveBookmark, leaving an existing bookmark as it is
saveBookmarkKeepsOld(existing, alias, absPath, fault, t, calls) ==
    IF existing # NoBookmark
    THEN AddRun(Outcome(existing, <<>>,
                        <<Line("already exists", alias, existing[1].Path),
                          Line("added", alias, absPath)>>,
                        <<>>, 0, calls \o <<Call("Close", <<>>)>>, <<>>),
                bookmarks, nextId)
    ELSE AddRun(Outcome(existing, <<>>, <<Line("added", alias, absPath)>>, <<>>, 0,
                        calls \o <<Call("AddBookmark", alias), Call("Close", <<>>)>>,
                        <<>>),
                InsertBookmark(bookmarks, nextId, alias, absPath, t), nextId + 1)

\* lines 108-123: remove an existing bookmark, then insert, at second t
saveBookmark(existing, alias, absPath, fault, t, calls) ==
    LET notice == IF existing = NoBookmark THEN <<>>
                  ELSE <<Line("already exists", alias, existing[1].Path),
                         Line("Updating to point to", <<>>, absPath)>>
        kept   == IF existing = NoBookmark THEN bookmarks
                  ELSE SelectSeq(bookmarks, LAMBDA b : b.Alias # alias)
        callsR == IF existing = NoBookmark THEN calls
                  ELSE calls \o <<Call("RemoveBookmark", alias)>>
        callsA == callsR \o <<Call("AddBookmark", alias)>>
        close  == <<Call("Close", <<>>)>>
    IN  IF existing # NoBookmark /\ fault = "RemoveBookmark"
        THEN AddRun(FailedAfter(existing, notice, "failed to update bookmark",
                                callsR \o close),
                    bookmarks, nextId)
        ELSE IF fault = "AddBookmark" \/ \E i \in DOMAIN kept : kept[i].Alias = alias
        THEN AddRun(FailedAfter(existing, notice, "failed to add bookmark",
                                callsA \o close),
                    kept, nextId)
        ELSE AddRun(Outcome(existing, <<>>, notice \o <<Line("added", alias, absPath)>>,
                            <<>>, 0, callsA \o close, <<>>),
                    InsertBookmark(kept, nextId, alias, absPath, t), nextId + 1)

\* lines 77-106: resolve and check the path, open the store, look the alias up
checkAndSave(alias, path, wd, stat, fault, t, calls) ==
    IF fault = "Getwd" /\ ~HasPrefix(path, <<"/">>)
    THEN Rejected("failed to resolve path", calls)
    ELSE IF stat = "notexist"
    THEN Rejected("path does not exist", calls \o <<Call("Stat", Abs(path, wd))>>)
    ELSE IF stat = "error"
    THEN Rejected("failed to check path", calls \o <<Call("Stat", Abs(path, wd))>>)
    ELSE IF stat = "file"
    THEN Rejected("is not a directory", calls \o <<Call("Stat", Abs(path, wd))>>)
    ELSE IF fault = "New"
    THEN Rejected("failed to open database",
                  calls \o <<Call("Stat", Abs(path, wd)), Call("New", <<>>)>>)
    ELSE IF fault = "GetBookmark"
    THEN Rejected("database error",
                  calls \o <<Call("Stat", Abs(path, wd)), Call("New", <<>>),
                             Call("GetBookmark", alias), Call("Close", <<>>)>>)
    ELSE saveBookmark(GetBookmark(alias), alias, Abs(path, wd), fault, t,
                      calls \o <<Call("Stat", Abs(path, wd)), Call("New", <<>>),
                                 Call("GetBookmark", alias)>>)

\* lines 47-75: the alias and the path of the arguments
runBookmarkAdd(args, wd, stat, fault, t) ==
    IF Len(args) < 1 THEN Rejected("alias is required", <<>>)
    ELSE IF Len(args) >= 3 /\ args[1] = This /\ args[2] = As
    THEN IF fault = "Getwd"
         THEN Rejected("failed to get current directory", <<Call("Getwd", <<>>)>>)
         ELSE checkAndSave(args[3], wd, wd, stat, fault, t, <<Call("Getwd", <<>>)>>)
    ELSE IF Len(args) = 1
    THEN IF fault = "Getwd"
         THEN Rejected("failed to get current directory", <<Call("Getwd", <<>>)>>)
         ELSE checkAndSave(args[1], wd, wd, stat, fault, t, <<Call("Getwd", <<>>)>>)
    ELSE checkAndSave(args[1], JoinSpace(Tail(args)), wd, stat, fault, t,
                      IF HasPrefix(JoinSpace(Tail(args)), <<"/">>) THEN <<>>
                      ELSE <<Call("Getwd", <<>>)>>)

----------------------------------------------------------------------------
(* State machine *)

NoOutcome == Outcome(NoBookmark, <<>>, <<>>, <<>>, 0, <<>>, <<>>)

\* the observable result of one operation
Result(op, arg, fault, stat, err, res) ==
    [op |-> op, arg |-> arg, fault |-> fault, stat |-> stat, err |-> err, res |-> res]

\* the wall-clock seconds an insert into navigation_history can read: the second
\* of the previous row or a later one (only the order of the seconds matters)
Stamps ==
    IF history = <<>> THEN {1}
    ELSE {history[Len(history)].accessed_at, history[Len(history)].accessed_at + 1}

\* an insert that keeps one row per path (the earlier rows of the path are dropped)
InsertHistoryOnce(h, paths, t) ==
    SelectSeq(h, LAMBDA r : \A i \in DOMAIN paths : paths[i] # r.path)
        \o [i \in DOMAIN paths |-> [path |-> paths[i], accessed_at |-> t]]

\* INSERT INTO navigation_history (path): accessed_at is CURRENT_TIMESTAMP
InsertHistory(h, paths, t) ==
    h \o [i \in DOMAIN paths |-> [path |-> paths[i], accessed_at |-> t]]

\* a process that holds no database handle and runs no goroutine but main
NoProc == [kind |-> "none"]

Init ==
    /\ bookmarks = <<>>
    /\ nextId = 1
    /\ history = <<>>
    /\ out = Result("none", <<>>, "none", "ok", "none", NoOutcome)
    /\ proc = NoProc

\* an AddBookmark that replaces the row of a stored alias (INSERT OR REPLACE)
AddBookmarkReplaces(alias, path, t) ==
    /\ bookmarks' = InsertBookmark(SelectSeq(bookmarks, LAMBDA b : b.Alias # alias),
                                   nextId, alias, path, t)
    /\ nextId' = nextId + 1
    /\ out' = Result("AddBookmark", <<alias, path>>, "none", "ok", "none", NoOutcome)
    /\ UNCHANGED <<history, proc>>

\* db.AddBookmark at wall-clock second t: INSERT, rejected by the UNIQUE
\* constraint on alias
AddBookmark(alias, path, t) ==
    /\ IF GetBookmark(alias) # NoBookmark
       THEN /\ out' = Result("AddBookmark", <<alias, path>>, "none", "ok",
                             "failed to add bookmark", NoOutcome)
            /\ UNCHANGED <<bookmarks, nextId>>
       ELSE /\ bookmarks' = InsertBookmark(bookmarks, nextId, alias, path, t)
            /\ nextId' = nextId + 1
            /\ out' = Result("AddBookmark", <<alias, path>>, "none", "ok", "none", NoOutcome)
    /\ UNCHANGED <<history, proc>>

\* a RemoveBookmark that does not look at the number of rows affected
RemoveBookmarkQuiet(alias) ==
    /\ bookmarks' = SelectSeq(bookmarks, LAMBDA b : b.Alias # alias)
    /\ out' = Result("RemoveBookmark", alias, "none", "ok", "none", NoOutcome)
    /\ UNCHANGED <<nextId, history, proc>>

\* db.RemoveBookmark: DELETE, an error when no row was affected
RemoveBookmark(alias) ==
    /\ IF GetBookmark(alias) = NoBookmark
       THEN /\ out' = Result("RemoveBookmark", alias, "none", "ok", "not found", NoOutcome)
            /\ UNCHANGED bookmarks
       ELSE /\ bookmarks' = SelectSeq(bookmarks, LAMBDA b : b.Alias # alias)
            /\ out' = Result("RemoveBookmark", alias, "none", "ok", "none", NoOutcome)
    /\ UNCHANGED <<nextId, history, proc>>

\* db.AddNavigationHistory, at wall-clock second t
AddNavigationHistory(path, t) ==
    /\ Len(history) < MaxHistory
    /\ history' = InsertHistory(history, <<path>>, t)
    /\ out' = Result("AddNavigationHistory", path, "none", "ok", "none", NoOutcome)
    /\ UNCHANGED <<bookmarks, nextId, proc>>

\* the error of row.Scan in GetBookmark: sql.ErrNoRows when no row has the
\* alias, a driver error when the statement fails
scanError(alias, fault) ==
    IF fault = "GetBookmark" THEN ErrLocked
    ELSE IF SelectSeq(bookmarks, LAMBDA b : b.Alias = alias) = <<>> THEN ErrNoRows
    ELSE <<>>

\* every error of row.Scan returned as an error
getBookmarkErrorStrict(scanErr) ==
    IF scanErr = <<>> THEN "none" ELSE "failed to get bookmark"

\* lines 52-60: the error GetBookmark returns for the error of row.Scan
getBookmarkError(scanErr) ==
    IF scanErr = <<>> THEN "none"
    ELSE IF Contains(scanErr, NoRows) THEN "none"
    ELSE "failed to get bookmark"

\* db.GetBookmark called on the store as it is
Get(alias, fault) ==
    /\ out' = Result("GetBookmark", alias, fault, "ok",
                     getBookmarkError(scanError(alias, fault)),
                     Outcome(IF scanError(alias, fault) = <<>> THEN GetBookmark(alias)
                             ELSE NoBookmark,
                             <<>>, <<>>, <<>>, 0, <<Call("GetBookmark", alias)>>, <<>>))
    /\ UNCHANGED <<bookmarks, nextId, history, proc>>

\* db.ListBookmarks called on the store as it is
List ==
    /\ out' = Result("ListBookmarks", <<>>, "none", "ok", "none",
                     Outcome(NoBookmark, ListBookmarks, <<>>, <<>>, 0,
                             <<Call("ListBookmarks", <<>>)>>, <<>>))
    /\ UNCHANGED <<bookmarks, nextId, history, proc>>

\* a FuzzySearch that records the path of its first candidate as a visit
SearchRecordsVisit(query) ==
    /\ out' = Result("FuzzySearch", query, "none", "ok", "none",
                     Outcome(NoBookmark, FuzzySearch(query), <<>>, <<>>, 0,
                             <<Call("FuzzySearch", query)>>, <<>>))
    /\ history' = IF FuzzySearch(query) = <<>> THEN history
                  ELSE InsertHistory(history, <<FuzzySearch(query)[1].Path>>, 1)
    /\ UNCHANGED <<bookmarks, nextId, proc>>

\* db.FuzzySearch called on the store as it is
Search(query) ==
    /\ out' = Result("FuzzySearch", query, "none", "ok", "none",
                     Outcome(NoBookmark, FuzzySearch(query), <<>>, <<>>, 0,
                             <<Call("FuzzySearch", query)>>, <<>>))
    /\ UNCHANGED <<bookmarks, nextId, history, proc>>

Called(res, fn) == \E i \in DOMAIN res.calls : res.calls[i].fn = fn

\* a `go` that records the query it was given instead of the path it opens
GoRecordsQuery(query, fault, stat, t, res) ==
    /\ Len(history) + Len(res.writes) <= MaxHistory
    /\ history' = InsertHistory(history, [i \in DOMAIN res.writes |-> query], t)
    /\ out' = Result("go", query, fault, stat, "none", res)
    /\ UNCHANGED <<bookmarks, nextId, proc>>

\* one invocation of `aura go query` with outcome res.  fault is the store call
\* that fails, stat the answer of os.Stat and t the wall-clock second of the
\* history insert.
Go(query, fault, stat, t, res) ==
    /\ Len(history) + Len(res.writes) <= MaxHistory
    /\ history' = InsertHistory(history, res.writes, t)
    /\ out' = Result("go", query, fault, stat, "none", res)
    /\ UNCHANGED <<bookmarks, nextId, proc>>

\* The inputs of an invocation are drawn among those it reads: os.Stat answers
\* only when a target was resolved (found is the outcome when it answers "ok"),
GoStat(q, f, s, res) ==
    \E t \in (IF res.writes = <<>> THEN {1} ELSE Stamps) : Go(q, f, s, t, res)

GoFault(q, f, found) ==
    \E s \in (IF Called(found, "Stat") THEN Stats ELSE {"ok"}) :
        GoStat(q, f, s, IF s = "ok" THEN found ELSE runGo(q, f, s))

\* and the store call that fails is one the invocation makes when none fails
\* (clean is the outcome when none fails).
GoQuery(q, clean) ==
    \E f \in { g \in Faults : g = "none" \/ Called(clean, g) } :
        GoFault(q, f, IF f = "none" THEN clean ELSE runGo(q, f, "ok"))

GoCmd == \E q \in Queries : GoQuery(q, runGo(q, "none", "ok"))

\* the wall-clock seconds an insert into bookmarks can read
CreatedStamps ==
    IF bookmarks = <<>> THEN {1}
    ELSE {bookmarks[Len(bookmarks)].CreatedAt, bookmarks[Len(bookmarks)].CreatedAt + 1}

\* one invocation of `aura bookmark add args` in the working directory wd, run
\* being what it did
BookmarkAdd(args, wd, stat, fault, run) ==
    /\ bookmarks' = run.bookmarks
    /\ nextId' = run.nextId
    /\ out' = Result("bookmark add", args, fault, stat, "none", run.res)
    /\ UNCHANGED <<history, proc>>

\* os.Stat answers for a directory whenever a store call fails
BookmarkAddCmd ==
    \E args \in CmdArgs, wd \in Wds :
        \/ \E stat \in DirStats :
              BookmarkAdd(args, wd, stat, "none", runBookmarkAdd(args, wd, stat, "none", 1))
        \/ \E fault \in AddFaults :
              BookmarkAdd(args, wd, "dir", fault, runBookmarkAdd(args, wd, "dir", fault, 1))

\* created_at is not read by `go`: every bookmark is inserted at second 1
Next ==
    \/ nextId <= MaxId /\ \E a \in Aliases, p \in Paths : AddBookmark(a, p, 1)
    \/ \E a \in Aliases : RemoveBookmark(a)
    \/ \E p \in Paths, t \in Stamps : AddNavigationHistory(p, t)
    \/ GoCmd

Spec == Init /\ [][Next]_vars

----------------------------------------------------------------------------
(* FuzzySearch as a function of the store: every store of at most MaxRows rows *)

\* the bookmarks tables of k rows: distinct aliases, rowids 1..k
Tables(k) ==
    { [i \in 1..k |-> [ID |-> i, Alias |-> f[i][1], Path |-> f[i][2], CreatedAt |-> 1]] :
        f \in { g \in [1..k -> SearchAliases \X Paths] :
                  \A i, j \in 1..k : i # j => g[i][1] # g[j][1] } }

\* the navigation_history tables of k rows: seconds never decrease
Histories(k) ==
    { [i \in 1..k |-> [path |-> f[i][1], accessed_at |-> f[i][2]]] :
        f \in { g \in [1..k -> Paths \X (1..k)] :
                  /\ k > 0 => g[1][2] = 1
                  /\ \A i \in 1..(k - 1) : g[i + 1][2] \in {g[i][2], g[i][2] + 1} } }

InitSearch ==
    /\ \E kb \in 0..MaxRows : \E kh \in 0..(MaxRows - kb) :
          /\ bookmarks \in Tables(kb)
          /\ history \in Histories(kh)
    /\ nextId = Len(bookmarks) + 1
    /\ out = Result("none", <<>>, "none", "ok", "none", NoOutcome)
    /\ proc = NoProc

NextSearch == \E q \in SearchQueries : Search(q)

SpecSearch == InitSearch /\ [][NextSearch]_vars

----------------------------------------------------------------------------
(* The store operations, in any order from the empty store *)

NextStore ==
    \/ \E a \in StoreAliases, p \in Paths, t \in CreatedStamps :
          (nextId <= MaxId \/ GetBookmark(a) # NoBookmark) /\ AddBookmark(a, p, t)
    \/ \E a \in StoreAliases : RemoveBookmark(a)
    \/ \E p \in Paths, t \in Stamps : AddNavigationHistory(p, t)
    \/ \E a \in StoreAliases, f \in {"none", "GetBookmark"} : Get(a, f)
    \/ List
    \/ \E q \in Queries : Search(q)

SpecStore == Init /\ [][NextStore]_vars

----------------------------------------------------------------------------
(* `bookmark add` on any table of bookmarks; created_at is not read by it:   *)
(* every bookmark is inserted at second 1                                    *)

NextAdd ==
    \/ nextId <= MaxStoreId /\ \E a \in Aliases, p \in Paths : AddBookmark(a, p, 1)
    \/ \E a \in Aliases : RemoveBookmark(a)
    \/ nextId <= MaxStoreId /\ BookmarkAddCmd

SpecAdd == Init /\ [][NextAdd]_vars

----------------------------------------------------------------------------
(* The store with bookmarks whose alias has the form of a history label *)

LabelPaths == { <<"/", "a">>, <<"/", "B">> }
LabelAliases == { <<"a">> } \cup { HistoryPrefix \o p : p \in LabelPaths }
LabelQueries == { <<"/">>, <<" ", "B">> }

NextLabel ==
    \/ nextId <= MaxId /\ \E a \in LabelAliases, p \in LabelPaths : AddBookmark(a, p, 1)
    \/ \E a \in LabelAliases : RemoveBookmark(a)
    \/ \E p \in LabelPaths, t \in Stamps : AddNavigationHistory(p, t)
    \/ \E q \in LabelQueries : Search(q)

SpecLabel == Init /\ [][NextLabel]_vars

----------------------------------------------------------------------------
(* The context detectors (internal/context/detectors.go) and the `do`      *)
(* command (internal/cmd/do.go).  The working directory is the set of the  *)
(* names of its entries; probe is the answer of os.Stat for every name.    *)

\* the file names the detectors probe, files of the working directory that
\* match their patterns, and the patterns
Files ==
    [Git |->
         <<".", "g", "i", "t">>,
     PackageJson |->
         <<"p", "a", "c", "k", "a", "g", "e", ".", "j", "s", "o", "n">>,
     YarnLock |->
         <<"y", "a", "r", "n", ".", "l", "o", "c", "k">>,
     PyProject |->
         <<"p", "y", "p", "r", "o", "j", "e", "c", "t", ".", "t", "o", "m", "l">>,
     Requirements |->
         <<"r", "e", "q", "u", "i", "r", "e", "m", "e", "n", "t", "s", ".", "t",
         "x", "t">>,
     Pipfile |->
         <<"P", "i", "p", "f", "i", "l", "e">>,
     SetupPy |->
         <<"s", "e", "t", "u", "p", ".", "p", "y">>,
     PytestIni |->
         <<"p", "y", "t", "e", "s", "t", ".", "i", "n", "i">>,
     GoMod |->
         <<"g", "o", ".", "m", "o", "d">>,
     Dockerfile |->
         <<"D", "o", "c", "k", "e", "r", "f", "i", "l", "e">>,
     ComposeYml |->
         <<"d", "o", "c", "k", "e", "r", "-", "c", "o", "m", "p", "o", "s", "e", ".",
         "y", "m", "l">>,
     ComposeYaml |->
         <<"d", "o", "c", "k", "e", "r", "-", "c", "o", "m", "p", "o", "s", "e", ".",
         "y", "a", "m", "l">>,
     Makefile |->
         <<"M", "a", "k", "e", "f", "i", "l", "e">>,
     LowerMakefile |->
         <<"m", "a", "k", "e", "f", "i", "l", "e">>,
     APy |->
         <<"a", ".", "p", "y">>,
     TestAPy |->
         <<"t", "e", "s", "t", "_", "a", ".", "p", "y">>,
     ATestPy |->
         <<"a", "_", "t", "e", "s", "t", ".", "p", "y">>,
     AGo |->
         <<"a", ".", "g", "o">>,
     PatternPy |->
         <<"*", ".", "p", "y">>,
     PatternTestPrefix |->
         <<"t", "e", "s", "t", "_", "*", ".", "p", "y">>,
     PatternTestSuffix |->
         <<"*", "_", "t", "e", "s", "t", ".", "p", "y">>,
     PatternGo |->
         <<"*", ".", "g", "o">>]

Action(name, command) == [Name |-> name, Command |-> command]

\* the suggestions of the detectors, by the test that adds them
Suggestions ==
     \* DetectGitContext, lines 20-32
    [Git |->
         <<Action("View status", <<"g", "i", "t", " ", "s", "t", "a", "t", "u", "s">>),
         Action("View changes", <<"g", "i", "t", " ", "d", "i", "f", "f">>),
         Action("View staged changes", <<"g", "i", "t", " ", "d", "i", "f", "f", " ", "-", "-", "s",
         "t", "a", "g", "e", "d">>),
         Action("Add all changes", <<"g", "i", "t", " ", "a", "d", "d", " ", ".">>),
         Action("Commit changes", <<"g", "i", "t", " ", "c", "o", "m", "m", "i", "t">>),
         Action("Push changes", <<"g", "i", "t", " ", "p", "u", "s", "h">>),
         Action("Pull latest changes", <<"g", "i", "t", " ", "p", "u", "l", "l">>),
         Action("View commit history", <<"g", "i", "t", " ", "l", "o", "g", " ", "-", "-", "o", "n",
         "e", "l", "i", "n", "e", " ", "-", "1", "0">>),
         Action("Create new branch", <<"g", "i", "t", " ", "c", "h", "e", "c", "k", "o", "u", "t", " ",
         "-", "b">>),
         Action("Stash changes", <<"g", "i", "t", " ", "s", "t", "a", "s", "h">>),
         Action("Pop stash", <<"g", "i", "t", " ", "s", "t", "a", "s", "h", " ", "p", "o", "p">>)>>,
     \* DetectNodeContext, lines 41-49
     Npm |->
         <<Action("Install dependencies", <<"n", "p", "m", " ", "i", "n", "s", "t", "a", "l", "l">>),
         Action("Update dependencies", <<"n", "p", "m", " ", "u", "p", "d", "a", "t", "e">>),
         Action("Run dev server", <<"n", "p", "m", " ", "r", "u", "n", " ", "d", "e", "v">>),
         Action("Run build", <<"n", "p", "m", " ", "r", "u", "n", " ", "b", "u", "i", "l", "d">>),
         Action("Run tests", <<"n", "p", "m", " ", "t", "e", "s", "t">>),
         Action("Check for vulnerabilities", <<"n", "p", "m", " ", "a", "u", "d", "i", "t">>),
         Action("View package info", <<"n", "p", "m", " ", "l", "i", "s", "t", " ", "-", "-", "d", "e",
         "p", "t", "h", "=", "0">>)>>,
     \* DetectNodeContext, lines 54-59
     Yarn |->
         <<Action("Install dependencies (Yarn)", <<"y", "a", "r", "n", " ", "i", "n", "s", "t", "a", "l",
         "l">>),
         Action("Run dev server (Yarn)", <<"y", "a", "r", "n", " ", "d", "e", "v">>),
         Action("Run build (Yarn)", <<"y", "a", "r", "n", " ", "b", "u", "i", "l", "d">>),
         Action("Run tests (Yarn)", <<"y", "a", "r", "n", " ", "t", "e", "s", "t">>)>>,
     \* DetectPythonContext, lines 90-94
     Python |->
         <<Action("Run Python REPL", <<"p", "y", "t", "h", "o", "n">>),
         Action("List Python files", <<"f", "i", "n", "d", " ", ".", " ", "-", "n", "a", "m", "e", " ",
         "'", "*", ".", "p", "y", "'", " ", "-", "t", "y", "p", "e", " ", "f">>),
         Action("Check Python version", <<"p", "y", "t", "h", "o", "n", " ", "-", "-", "v", "e", "r",
         "s", "i", "o", "n">>)>>,
     \* lines 97-100
     Requirements |->
         <<Action("Install requirements", <<"p", "i", "p", " ", "i", "n", "s", "t", "a", "l", "l", " ",
         "-", "r", " ", "r", "e", "q", "u", "i", "r", "e", "m", "e", "n", "t", "s", ".",
         "t", "x", "t">>),
         Action("Generate requirements", <<"p", "i", "p", " ", "f", "r", "e", "e", "z", "e", " ", ">",
         " ", "r", "e", "q", "u", "i", "r", "e", "m", "e", "n", "t", "s", ".", "t", "x",
         "t">>)>>,
     \* lines 104-108
     Pipenv |->
         <<Action("Install dependencies (Pipenv)", <<"p", "i", "p", "e", "n", "v", " ", "i", "n", "s",
         "t", "a", "l", "l">>),
         Action("Activate virtual env", <<"p", "i", "p", "e", "n", "v", " ", "s", "h", "e", "l", "l">>),
         Action("Run with Pipenv", <<"p", "i", "p", "e", "n", "v", " ", "r", "u", "n", " ", "p", "y",
         "t", "h", "o", "n">>)>>,
     \* lines 112-114
     PyProject |->
         <<Action("Install project", <<"p", "i", "p", " ", "i", "n", "s", "t", "a", "l", "l", " ", "-",
         "e", " ", ".">>)>>,
     \* lines 119-121
     SetupPy |->
         <<Action("Install package", <<"p", "y", "t", "h", "o", "n", " ", "s", "e", "t", "u", "p", ".",
         "p", "y", " ", "i", "n", "s", "t", "a", "l", "l">>)>>,
     \* lines 125-128
     Pytest |->
         <<Action("Run tests", <<"p", "y", "t", "e", "s", "t">>),
         Action("Run tests with coverage", <<"p", "y", "t", "e", "s", "t", " ", "-", "-", "c", "o",
         "v">>)>>,
     \* DetectGoContext, lines 144-154
     Go |->
         <<Action("Build project", <<"g", "o", " ", "b", "u", "i", "l", "d">>),
         Action("Run project", <<"g", "o", " ", "r", "u", "n", " ", ".">>),
         Action("Test project", <<"g", "o", " ", "t", "e", "s", "t", " ", ".", "/", ".", ".", ".">>),
         Action("Get dependencies", <<"g", "o", " ", "m", "o", "d", " ", "t", "i", "d", "y">>),
         Action("Format code", <<"g", "o", " ", "f", "m", "t", " ", ".", "/", ".", ".", ".">>),
         Action("Lint code", <<"g", "o", "l", "a", "n", "g", "c", "i", "-", "l", "i", "n", "t", " ",
         "r", "u", "n">>),
         Action("View dependencies", <<"g", "o", " ", "l", "i", "s", "t", " ", "-", "m", " ", "a", "l",
         "l">>),
         Action("Check for updates", <<"g", "o", " ", "l", "i", "s", "t", " ", "-", "u", " ", "-", "m",
         " ", "a", "l", "l">>),
         Action("Clean module cache", <<"g", "o", " ", "c", "l", "e", "a", "n", " ", "-", "m", "o", "d",
         "c", "a", "c", "h", "e">>)>>,
     \* DetectDockerContext, lines 181-184
     Dockerfile |->
         <<Action("Build Docker image", <<"d", "o", "c", "k", "e", "r", " ", "b", "u", "i", "l", "d", " ",
         "-", "t", " ", "$", "(", "b", "a", "s", "e", "n", "a", "m", "e", " ", "$", "(",
         "p", "w", "d", ")", ")", " ", ".">>),
         Action("Run Docker container", <<"d", "o", "c", "k", "e", "r", " ", "r", "u", "n", " ", "-",
         "i", "t", " ", "$", "(", "b", "a", "s", "e", "n", "a", "m", "e", " ", "$", "(",
         "p", "w", "d", ")", ")">>)>>,
     \* lines 188-194
     Compose |->
         <<Action("Start services", <<"d", "o", "c", "k", "e", "r", "-", "c", "o", "m", "p", "o", "s",
         "e", " ", "u", "p">>),
         Action("Start services (detached)", <<"d", "o", "c", "k", "e", "r", "-", "c", "o", "m", "p",
         "o", "s", "e", " ", "u", "p", " ", "-", "d">>),
         Action("Stop services", <<"d", "o", "c", "k", "e", "r", "-", "c", "o", "m", "p", "o", "s", "e",
         " ", "d", "o", "w", "n">>),
         Action("View logs", <<"d", "o", "c", "k", "e", "r", "-", "c", "o", "m", "p", "o", "s", "e",
         " ", "l", "o", "g", "s">>),
         Action("Rebuild and start", <<"d", "o", "c", "k", "e", "r", "-", "c", "o", "m", "p", "o", "s",
         "e", " ", "u", "p", " ", "-", "-", "b", "u", "i", "l", "d">>)>>,
     \* DetectMakeContext, lines 208-214
     Make |->
         <<Action("Show available targets", <<"m", "a", "k", "e", " ", "h", "e", "l", "p">>),
         Action("Build (default target)", <<"m", "a", "k", "e">>),
         Action("Clean build artifacts", <<"m", "a", "k", "e", " ", "c", "l", "e", "a", "n">>),
         Action("Install", <<"m", "a", "k", "e", " ", "i", "n", "s", "t", "a", "l", "l">>),
         Action("Run tests", <<"m", "a", "k", "e", " ", "t", "e", "s", "t">>)>>]

\* the commands of the general actions (internal/cmd/do.go, lines 302-338)
\* and the words isWindows and isMacOS look for
Commands ==
    [Explorer |->
         <<"e", "x", "p", "l", "o", "r", "e", "r", " ", ".">>,
     Open |->
         <<"o", "p", "e", "n", " ", ".">>,
     XdgOpen |->
         <<"x", "d", "g", "-", "o", "p", "e", "n", " ", ".">>,
     Dir |->
         <<"d", "i", "r">>,
     Ls |->
         <<"l", "s", " ", "-", "l", "a">>,
     PowershellSize |->
         <<"p", "o", "w", "e", "r", "s", "h", "e", "l", "l", " ", "-", "C",
         "o", "m", "m", "a", "n", "d", " ", "\"", "G", "e", "t", "-", "C", "h", "i", "l", "d", "I",
         "t", "e", "m", " ", "|", " ", "M", "e", "a", "s", "u", "r", "e", "-", "O", "b", "j", "e",
         "c", "t", " ", "-", "P", "r", "o", "p", "e", "r", "t", "y", " ", "L", "e", "n", "g", "t",
         "h", " ", "-", "S", "u", "m", " ", "|", " ", "S", "e", "l", "e", "c", "t", "-", "O", "b",
         "j", "e", "c", "t", " ", "@", "{", "N", "a", "m", "e", "=", "'", "S", "i", "z", "e", "(",
         "M", "B", ")", "'", ";", "E", "x", "p", "r", "e", "s", "s", "i", "o", "n", "=", "{", "[",
         "m", "a", "t", "h", "]", ":", ":", "R", "o", "u", "n", "d", "(", "$", "_", ".", "S", "u",
         "m", "/", "1", "M", "B", ",", "2", ")", "}", "}", "\"">>,
     Du |->
         <<"d", "u", " ", "-", "s", "h", " ", "*">>,
     PowershellLarge |->
         <<"p", "o", "w", "e", "r", "s", "h", "e", "l", "l", " ", "-", "C",
         "o", "m", "m", "a", "n", "d", " ", "\"", "G", "e", "t", "-", "C", "h", "i", "l", "d", "I",
         "t", "e", "m", " ", "-", "R", "e", "c", "u", "r", "s", "e", " ", "-", "F", "i", "l", "e",
         " ", "|", " ", "W", "h", "e", "r", "e", "-", "O", "b", "j", "e", "c", "t", " ", "{", "$",
         "_", ".", "L", "e", "n", "g", "t", "h", " ", "-", "g", "t", " ", "1", "0", "M", "B", "}",
         " ", "|", " ", "S", "e", "l", "e", "c", "t", "-", "O", "b", "j", "e", "c", "t", " ", "N",
         "a", "m", "e", ",", " ", "@", "{", "N", "a", "m", "e", "=", "'", "S", "i", "z", "e", "(",
         "M", "B", ")", "'", ";", "E", "x", "p", "r", "e", "s", "s", "i", "o", "n", "=", "{", "[",
         "m", "a", "t", "h", "]", ":", ":", "R", "o", "u", "n", "d", "(", "$", "_", ".", "L", "e",
         "n", "g", "t", "h", "/", "1", "M", "B", ",", "2", ")", "}", "}", ",", " ", "F", "u", "l",
         "l", "N", "a", "m", "e", " ", "|", " ", "S", "o", "r", "t", "-", "O", "b", "j", "e", "c",
         "t", " ", "'", "S", "i", "z", "e", "(", "M", "B", ")", "'", " ", "-", "D", "e", "s", "c",
         "e", "n", "d", "i", "n", "g", "\"">>,
     FindLarge |->
         <<"f", "i", "n", "d", " ", ".", " ", "-", "t", "y", "p", "e", " ", "f",
         " ", "-", "s", "i", "z", "e", " ", "+", "1", "0", "M", " ", "-", "e", "x", "e", "c", " ",
         "l", "s", " ", "-", "l", "h", " ", "{", "}", " ", "\\", ";">>,
     WindowsNT |->
         <<"W", "i", "n", "d", "o", "w", "s", "_", "N", "T">>,
     Darwin21 |->
         <<"d", "a", "r", "w", "i", "n", "2", "1">>,
     WindowsWord |->
         <<"w", "i", "n", "d", "o", "w", "s">>,
     DarwinWord |->
         <<"d", "a", "r", "w", "i", "n">>]

NoFile == <<>>

\* the answer of os.Stat(name): nil, an os.IsNotExist error, or another error
\* (the name failing is the one whose probe fails for a reason other than absence)
Stat(dir, failing, name) ==
    IF name = failing THEN "error"
    ELSE IF name \in dir THEN "ok"
    ELSE "notexist"

\* filepath.Match for patterns of literal characters and "*"
RECURSIVE Match(_, _)
Match(pattern, name) ==
    IF pattern = <<>> THEN name = <<>>
    ELSE IF Head(pattern) = "*"
         THEN Match(Tail(pattern), name) \/ (name # <<>> /\ Match(pattern, Tail(name)))
    ELSE /\ name # <<>>
         /\ Head(pattern) = Head(name)
         /\ Match(Tail(pattern), Tail(name))

\* filepath.Glob(pattern) in the working directory
Glob(dir, pattern) == { name \in dir : Match(pattern, name) }

hasFilePattern(dir, pattern) == Glob(dir, pattern) # {}

DetectGitContext(dir, failing) ==
    IF Stat(dir, failing, Files.Git) = "notexist" THEN <<>> ELSE Suggestions.Git

DetectNodeContext(dir, failing) ==
    IF Stat(dir, failing, Files.PackageJson) = "notexist" THEN <<>>
    ELSE IF Stat(dir, failing, Files.YarnLock) = "ok" THEN Suggestions.Yarn \o Suggestions.Npm
    ELSE Suggestions.Npm

\* a detector that does not look at setup.py
DetectPythonNoSetup(dir, failing) ==
    LET hasPyProject    == Stat(dir, failing, Files.PyProject) = "ok"
        hasRequirements == Stat(dir, failing, Files.Requirements) = "ok"
        hasPipfile      == Stat(dir, failing, Files.Pipfile) = "ok"
    IN  IF ~hasPyProject /\ ~hasRequirements /\ ~hasPipfile /\ Glob(dir, Files.PatternPy) = {}
        THEN <<>>
        ELSE Suggestions.Python
             \o (IF hasRequirements THEN Suggestions.Requirements ELSE <<>>)
             \o (IF hasPipfile THEN Suggestions.Pipenv ELSE <<>>)
             \o (IF hasPyProject THEN Suggestions.PyProject ELSE <<>>)
             \o (IF \/ Stat(dir, failing, Files.PytestIni) = "ok"
                    \/ hasFilePattern(dir, Files.PatternTestPrefix)
                    \/ hasFilePattern(dir, Files.PatternTestSuffix)
                 THEN Suggestions.Pytest ELSE <<>>)

DetectPythonContext(dir, failing) ==
    LET hasPyProject    == Stat(dir, failing, Files.PyProject) = "ok"
        hasRequirements == Stat(dir, failing, Files.Requirements) = "ok"
        hasPipfile      == Stat(dir, failing, Files.Pipfile) = "ok"
    IN  IF ~hasPyProject /\ ~hasRequirements /\ ~hasPipfile /\ Glob(dir, Files.PatternPy) = {}
        THEN <<>>
        ELSE Suggestions.Python
             \o (IF hasRequirements THEN Suggestions.Requirements ELSE <<>>)
             \o (IF hasPipfile THEN Suggestions.Pipenv ELSE <<>>)
             \o (IF hasPyProject THEN Suggestions.PyProject ELSE <<>>)
             \o (IF Stat(dir, failing, Files.SetupPy) = "ok" THEN Suggestions.SetupPy ELSE <<>>)
             \o (IF \/ Stat(dir, failing, Files.PytestIni) = "ok"
                    \/ hasFilePattern(dir, Files.PatternTestPrefix)
                    \/ hasFilePattern(dir, Files.PatternTestSuffix)
                 THEN Suggestions.Pytest ELSE <<>>)

DetectGoContext(dir, failing) ==
    IF Stat(dir, failing, Files.GoMod) = "notexist" /\ Glob(dir, Files.PatternGo) = {}
    THEN <<>>
    ELSE Suggestions.Go

DetectDockerContext(dir, failing) ==
    LET hasDockerfile    == Stat(dir, failing, Files.Dockerfile) = "ok"
        hasDockerCompose == \/ Stat(dir, failing, Files.ComposeYml) = "ok"
                            \/ Stat(dir, failing, Files.ComposeYaml) = "ok"
    IN  IF ~hasDockerfile /\ ~hasDockerCompose THEN <<>>
        ELSE (IF hasDockerfile THEN Suggestions.Dockerfile ELSE <<>>)
             \o (IF hasDockerCompose THEN Suggestions.Compose ELSE <<>>)

DetectMakeContext(dir, failing) ==
    IF /\ Stat(dir, failing, Files.Makefile) = "notexist"
       /\ Stat(dir, failing, Files.LowerMakefile) = "notexist"
    THEN <<>>
    ELSE Suggestions.Make

\* the detectors in the order of the slice `detectors` of runDo
DetectorCount == 6

Detector(d, dir, failing) ==
    CASE d = 1 -> DetectGitContext(dir, failing)
      [] d = 2 -> DetectNodeContext(dir, failing)
      [] d = 3 -> DetectPythonContext(dir, failing)
      [] d = 4 -> DetectGoContext(dir, failing)
      [] d = 5 -> DetectDockerContext(dir, failing)
      [] d = 6 -> DetectMakeContext(dir, failing)

\* the environment variables OS and OSTYPE and runtime.GOOS
Platform(os, ostype, goos) == [OS |-> os, OSTYPE |-> ostype, GOOS |-> goos]

isWindows(platform) ==
    IF platform.OS # <<>> THEN Contains(ToLower(platform.OS), Commands.WindowsWord)
    ELSE platform.GOOS = "windows"

isMacOS(platform) ==
    IF platform.OSTYPE # <<>> THEN Contains(ToLower(platform.OSTYPE), Commands.DarwinWord)
    ELSE platform.GOOS = "darwin"

getOpenCommand(platform) ==
    IF isWindows(platform) THEN Commands.Explorer
    ELSE IF isMacOS(platform) THEN Commands.Open
    ELSE Commands.XdgOpen

getListCommand(platform) == IF isWindows(platform) THEN Commands.Dir ELSE Commands.Ls

getDiskUsageCommand(platform) ==
    IF isWindows(platform) THEN Commands.PowershellSize ELSE Commands.Du

getFindLargeFilesCommand(platform) ==
    IF isWindows(platform) THEN Commands.PowershellLarge ELSE Commands.FindLarge

generalActions(platform) ==
    <<Action("Open current directory", getOpenCommand(platform)),
      Action("List directory contents", getListCommand(platform)),
      Action("Show disk usage", getDiskUsageCommand(platform)),
      Action("Find large files", getFindLargeFilesCommand(platform))>>

\* unicode.IsSpace on the characters of the commands
Space == { " ", "\t", "\n" }

\* strings.Fields, cur being the field read so far
RECURSIVE Fields(_, _)
Fields(s, cur) ==
    IF s = <<>> THEN (IF cur = <<>> THEN <<>> ELSE <<cur>>)
    ELSE IF Head(s) \in Space
    THEN (IF cur = <<>> THEN <<>> ELSE <<cur>>) \o Fields(Tail(s), <<>>)
    ELSE Fields(Tail(s), Append(cur, Head(s)))

\* what one invocation of `do` did: the actions collected, the items of the
\* prompt (<<>> when no prompt was shown), what it printed, the exit status and
\* the argument lists of the child processes it started
DoOutcome(actions, items, stdout, stderr, exit, started) ==
    [actions |-> actions, items |-> items, stdout |-> stdout, stderr |-> stderr,
     exit |-> exit, started |-> started]

\* an executeCommand that hands the command to the process without the check
executeUnchecked(command, run, actions, items, stdout) ==
    IF run = "notfound"
    THEN DoOutcome(actions, items, stdout, <<"executable file not found">>, 1, <<>>)
    ELSE IF run = "failed"
    THEN DoOutcome(actions, items, stdout, <<"exit status 1">>, 1,
                   <<Fields(command, <<>>)>>)
    ELSE DoOutcome(actions, items, stdout, <<>>, 0, <<Fields(command, <<>>)>>)

\* executeCommand, run being the fate of cmd.Run: the executable is not found,
\* the child exits with a failure, or it succeeds
executeCommand(command, run, actions, items, stdout) ==
    IF Len(Fields(command, <<>>)) = 0
    THEN DoOutcome(actions, items, stdout, <<"empty command">>, 1, <<>>)
    ELSE IF run = "notfound"
    THEN DoOutcome(actions, items, stdout, <<"executable file not found">>, 1, <<>>)
    ELSE IF run = "failed"
    THEN DoOutcome(actions, items, stdout, <<"exit status 1">>, 1,
                   <<Fields(command, <<>>)>>)
    ELSE DoOutcome(actions, items, stdout, <<>>, 0, <<Fields(command, <<>>)>>)

RECURSIVE collect(_, _, _)
\* lines 226-230: the outputs of the detectors d, d + 1, ... appended in order
collect(d, dir, failing) ==
    IF d > DetectorCount THEN <<>>
    ELSE Detector(d, dir, failing) \o collect(d + 1, dir, failing)

\* what prompt.Run returns: the index selected and the error
Answer(selectedIndex, err) == [selectedIndex |-> selectedIndex, err |-> err]

\* lines 247-281: the prompt over allActions and the execution of the selection
prompt(allActions, answer, run) ==
    LET items == [i \in DOMAIN allActions |-> allActions[i].Name]
    IN  IF answer.err = "interrupt"
        THEN DoOutcome(allActions, items, <<Line("Cancelled.", <<>>, <<>>)>>, <<>>, 0, <<>>)
        ELSE IF answer.err # "none"
        THEN DoOutcome(allActions, items, <<>>, <<"prompt failed">>, 1, <<>>)
        ELSE executeCommand(allActions[answer.selectedIndex].Command, run, allActions, items,
                            <<Line("Executing", <<>>,
                                   allActions[answer.selectedIndex].Command)>>)

\* a runDo that shows the general actions before the detected ones
runDoGeneralFirst(detected, platform, answer, run) ==
    IF Len(detected) = 0
    THEN DoOutcome(detected, <<>>,
                   <<Line("No specific context detected in this directory.", <<>>, <<>>),
                     Line("Try running 'aura do' in a project directory", <<>>, <<>>)>>,
                   <<>>, 0, <<>>)
    ELSE prompt(generalActions(platform) \o detected, answer, run)

\* runDo, detected being the actions collected from the detectors
runDo(detected, platform, answer, run) ==
    IF Len(detected) = 0
    THEN DoOutcome(detected, <<>>,
                   <<Line("No specific context detected in this directory.", <<>>, <<>>),
                     Line("Try running 'aura do' in a project directory", <<>>, <<>>)>>,
                   <<>>, 0, <<>>)
    ELSE prompt(detected \o generalActions(platform), answer, run)

\* the entries of the working directory each detector reads, and among them the
\* names it probes with os.Stat
Reads(d) ==
    CASE d = 1 -> { Files.Git }
      [] d = 2 -> { Files.PackageJson, Files.YarnLock }
      [] d = 3 -> { Files.PyProject, Files.Requirements, Files.Pipfile, Files.SetupPy, Files.PytestIni,
                    Files.APy, Files.TestAPy, Files.ATestPy }
      [] d = 4 -> { Files.GoMod, Files.AGo }
      [] d = 5 -> { Files.Dockerfile, Files.ComposeYml, Files.ComposeYaml }
      [] d = 6 -> { Files.Makefile, Files.LowerMakefile }

Probed(d) == Reads(d) \ { Files.APy, Files.TestAPy, Files.ATestPy, Files.AGo }

\* the working directories of `do`: any combination of one trigger per detector
DoFiles ==
    { Files.Git, Files.PackageJson, Files.Requirements, Files.GoMod, Files.Dockerfile, Files.Makefile }
DoFailing == { NoFile, Files.Git, Files.Requirements }
Platforms ==
    { Platform(<<>>, <<>>, "linux"), Platform(Commands.WindowsNT, <<>>, "windows"),
      Platform(<<>>, Commands.Darwin21, "linux") }
Runs == { "ok", "notfound", "failed" }
ExecCommands ==
    { <<>>, <<" ">>, <<"\t", " ">>, Commands.Ls, <<" ">> \o Commands.Ls \o <<" ", " ">> }

\* one detector called in the working directory dir
Detect(d, dir, failing) ==
    /\ out' = Result("detect", [detector |-> d, dir |-> dir, failing |-> failing],
                     "none", "ok", "none",
                     DoOutcome(Detector(d, dir, failing), <<>>, <<>>, <<>>, 0, <<>>))
    /\ UNCHANGED <<bookmarks, nextId, history, proc>>

DetectCmd ==
    \E d \in 1..DetectorCount :
        \E dir \in SUBSET Reads(d), failing \in Probed(d) \cup { NoFile } :
            Detect(d, dir, failing)

\* one invocation of `aura do` in the working directory dir, res being what it did
Do(dir, failing, platform, answer, run, res) ==
    /\ out' = Result("do", [dir |-> dir, failing |-> failing, platform |-> platform,
                            answer |-> answer, run |-> run],
                     "none", "ok", "none", res)
    /\ UNCHANGED <<bookmarks, nextId, history, proc>>

\* the prompt answers with an interrupt, an error or one of the items shown
DoPrompt(dir, failing, platform, detected) ==
    \/ \E err \in { "interrupt", "error" } :
          Do(dir, failing, platform, Answer(0, err), "ok",
             runDo(detected, platform, Answer(0, err), "ok"))
    \/ \E i \in 1..(Len(detected) + Len(generalActions(platform))), run \in Runs :
          Do(dir, failing, platform, Answer(i, "none"), run,
             runDo(detected, platform, Answer(i, "none"), run))

DoCmd ==
    \E dir \in SUBSET DoFiles, failing \in DoFailing, platform \in Platforms :
        IF Len(collect(1, dir, failing)) = 0
        THEN Do(dir, failing, platform, Answer(0, "none"), "ok",
                runDo(collect(1, dir, failing), platform, Answer(0, "none"), "ok"))
        ELSE DoPrompt(dir, failing, platform, collect(1, dir, failing))

\* executeCommand called on a command
Exec(command, run) ==
    /\ out' = Result("executeCommand", command, "none", "ok", "none",
                     executeCommand(command, run, <<>>, <<>>, <<>>))
    /\ UNCHANGED <<bookmarks, nextId, history, proc>>

\* `do` and the detectors keep nothing from one process to the next: a behaviour
\* is one call in a new process
NewProcess == out.op = "none"

NextDo ==
    \/ NewProcess /\ DetectCmd
    \/ NewProcess /\ DoCmd
    \/ NewProcess /\ \E command \in ExecCommands, run \in Runs : Exec(command, run)

SpecDo == Init /\ [][NextDo]_vars

----------------------------------------------------------------------------
(* The storage handle (internal/db/db.go) and the commands that open it *)

\* cap of the Close calls made on one handle
MaxCloses == 3

\* caps of the rows the commands insert into bookmarks and navigation_history
MaxCliId == 2
MaxCliHistory == 2

\* the DB struct a *DB points to; conn is "nil", "open" or, for a *sql.DB
\* after its Close, "closed"
DB(conn, isDockerMode) == [nil |-> FALSE, conn |-> conn, isDockerMode |-> isDockerMode]

\* the nil *DB
NoDB == [nil |-> TRUE, conn |-> "nil", isDockerMode |-> FALSE]

\* what New returned, the state of the connection it opened and the number
\* of its sql.Open calls that succeeded
Opened(db, err, conn, opens) == [db |-> db, err |-> err, conn |-> conn, opens |-> opens]

\* the step of New that fails, and the error of the driver when a pool is closed
NewFaults == { "none", "EnsureAuraDbRunning", "Open", "initialize" }
CloseFaults == { "none", "driver" }

\* (*sql.DB).Close: the first call closes the pool and returns the error of
\* the driver, a call on a closed pool returns nil
connClose(conn, fault) ==
    [conn |-> "closed", err |-> IF conn = "open" THEN fault ELSE "none"]

\* a New that returns the error of initialize and leaves the connection open
NewLeaksOnInitialize(isDockerMode, fault) ==
    IF isDockerMode
    THEN IF fault = "EnsureAuraDbRunning"
         THEN Opened(NoDB, "failed to ensure Docker container is running", "nil", 0)
         ELSE IF fault = "initialize"
         THEN Opened(NoDB, "failed to initialize database", "nil", 0)
         ELSE Opened(DB("nil", TRUE), "none", "nil", 0)
    ELSE IF fault = "Open"
         THEN Opened(NoDB, "failed to open database", "nil", 0)
         ELSE IF fault = "initialize"
         THEN Opened(NoDB, "failed to initialize database", "open", 1)
         ELSE Opened(DB("open", FALSE), "none", "open", 1)

\* lines 22-54: docker mode keeps no connection; file mode opens one and
\* closes it when initialize fails
New(isDockerMode, fault) ==
    IF isDockerMode
    THEN IF fault = "EnsureAuraDbRunning"
         THEN Opened(NoDB, "failed to ensure Docker container is running", "nil", 0)
         ELSE IF fault = "initialize"
         THEN Opened(NoDB, "failed to initialize database", "nil", 0)
         ELSE Opened(DB("nil", TRUE), "none", "nil", 0)
    ELSE IF fault = "Open"
         THEN Opened(NoDB, "failed to open database", "nil", 0)
         ELSE IF fault = "initialize"
         THEN Opened(NoDB, "failed to initialize database",
                     connClose("open", "none").conn, 1)
         ELSE Opened(DB("open", FALSE), "none", "open", 1)

\* what Close returned and the handle it leaves
Closed(db, err) == [db |-> db, err |-> err]

\* lines 57-62
Close(db, fault) ==
    IF db.conn # "nil"
    THEN Closed(DB(connClose(db.conn, fault).conn, db.isDockerMode),
                connClose(db.conn, fault).err)
    ELSE Closed(db, "none")

\* a process that called New: the handle it got, the connection New opened,
\* the sql.Open and Close calls so far and the error of the last call
DbProc(db, conn, opens, closes, err) ==
    [kind |-> "db", db |-> db, conn |-> conn, opens |-> opens, closes |-> closes,
     err |-> err]

\* db.New called by a process that holds no handle
DbNew(isDockerMode, fault) ==
    /\ proc = NoProc
    /\ proc' = DbProc(New(isDockerMode, fault).db, New(isDockerMode, fault).conn,
                      New(isDockerMode, fault).opens, 0, New(isDockerMode, fault).err)
    /\ UNCHANGED <<bookmarks, nextId, history, out>>

\* db.Close called on the handle New returned
DbClose(fault) ==
    /\ proc.kind = "db"
    /\ ~proc.db.nil
    /\ proc.closes < MaxCloses
    /\ proc' = DbProc(Close(proc.db, fault).db, Close(proc.db, fault).db.conn,
                      proc.opens, proc.closes + 1, Close(proc.db, fault).err)
    /\ UNCHANGED <<bookmarks, nextId, history, out>>

ListFaults == { "none", "New", "ListBookmarks" }
RemoveFaults == { "none", "New", "RemoveBookmark" }

\* internal/cmd/bookmark.go lines 126-149
runBookmarkList(fault) ==
    IF fault = "New"
    THEN Rejected("failed to open database", <<Call("New", <<>>)>>)
    ELSE IF fault = "ListBookmarks"
    THEN Rejected("failed to list bookmarks",
                  <<Call("New", <<>>), Call("ListBookmarks", <<>>),
                    Call("Close", <<>>)>>)
    ELSE AddRun(Outcome(NoBookmark, ListBookmarks,
                        IF ListBookmarks = <<>>
                        THEN <<Line("No bookmarks found", <<>>, <<>>)>>
                        ELSE <<Line("Saved bookmarks:", <<>>, <<>>)>>
                             \o [i \in DOMAIN ListBookmarks |->
                                    Line("->", ListBookmarks[i].Alias,
                                         ListBookmarks[i].Path)],
                        <<>>, 0,
                        <<Call("New", <<>>), Call("ListBookmarks", <<>>),
                          Call("Close", <<>>)>>, <<>>),
                bookmarks, nextId)

\* internal/cmd/bookmark.go lines 151-166; RemoveBookmark fails when no row
\* has the alias (internal/db/bookmarks.go lines 157-178)
runBookmarkRemove(alias, fault) ==
    IF fault = "New"
    THEN Rejected("failed to open database", <<Call("New", <<>>)>>)
    ELSE IF fault = "RemoveBookmark" \/ GetBookmark(alias) = NoBookmark
    THEN Rejected("failed to remove bookmark",
                  <<Call("New", <<>>), Call("RemoveBookmark", alias),
                    Call("Close", <<>>)>>)
    ELSE AddRun(Outcome(NoBookmark, <<>>, <<Line("removed", alias, <<>>)>>, <<>>, 0,
                        <<Call("New", <<>>), Call("RemoveBookmark", alias),
                          Call("Close", <<>>)>>, <<>>),
                SelectSeq(bookmarks, LAMBDA b : b.Alias # alias), nextId)

\* one invocation of `aura bookmark list`, run being what it did
BookmarkList(fault, run) ==
    /\ out' = Result("bookmark list", <<>>, fault, "ok", "none", run.res)
    /\ UNCHANGED <<bookmarks, nextId, history, proc>>

\* one invocation of `aura bookmark remove alias`, run being what it did
BookmarkRemove(alias, fault, run) ==
    /\ bookmarks' = run.bookmarks
    /\ out' = Result("bookmark remove", alias, fault, "ok", "none", run.res)
    /\ UNCHANGED <<nextId, history, proc>>

BookmarkListCmd == \E fault \in ListFaults : BookmarkList(fault, runBookmarkList(fault))

BookmarkRemoveCmd ==
    \E alias \in Aliases, fault \in RemoveFaults :
        BookmarkRemove(alias, fault, runBookmarkRemove(alias, fault))

\* the commands of the CLI that use the store, from the empty store
NextCli ==
    \/ nextId <= MaxCliId /\ BookmarkAddCmd
    \/ BookmarkRemoveCmd
    \/ BookmarkListCmd
    \/ Len(history) < MaxCliHistory /\ GoCmd

SpecCli == Init /\ [][NextCli]_vars

\* the same commands, each in a process of its own, and a process that
\* opens the store and closes it any number of times (the handle does not
\* read the tables: it is opened on the store of the initial state)
NextConn ==
    \/ proc = NoProc /\ nextId <= MaxCliId /\ BookmarkAddCmd
    \/ proc = NoProc /\ BookmarkRemoveCmd
    \/ proc = NoProc /\ BookmarkListCmd
    \/ proc = NoProc /\ Len(history) < MaxCliHistory /\ GoCmd
    \/ NewProcess /\ \E isDockerMode \in BOOLEAN, fault \in NewFaults :
                         DbNew(isDockerMode, fault)
    \/ \E fault \in CloseFaults : DbClose(fault)

SpecConn == Init /\ [][NextConn]_vars

----------------------------------------------------------------------------
(* The `ask` command and its spinner (internal/cmd/ask.go), one step of a *)
(* goroutine at a time                                                     *)

\* len(chars): the frames of the spinner
FrameCount == 10

\* the two goroutines of one invocation: main is the position of runAsk,
\* spinner the position of showThinking, tick whether ticker.C (a channel of
\* capacity 1) holds a tick, frame the value of i % len(chars) and err the
\* error of client.Ask
AskProc(main, spinner, tick, frame, err) ==
    [kind |-> "ask", main |-> main, spinner |-> spinner, tick |-> tick,
     frame |-> frame, err |-> err]

AskFaults == { "none", "NewClient", "ReadAll" }
AskErrors == { "none", "AI request failed" }

\* what runAsk prints and returns for the error of client.Ask
report(err) ==
    IF err # "none"
    THEN Failed(NoBookmark, <<>>, <<>>, err, <<>>, <<>>)
    ELSE Outcome(NoBookmark, <<>>, <<Line("response", <<>>, <<>>)>>, <<>>, 0, <<>>, <<>>)

\* a spinner that returns after its first frame
afterTickReturns == "returned"

\* lines 145-154: the for loop of showThinking comes back to the select
afterTick == "select"

\* lines 30-71: runAsk up to `go showThinking(done)`; it returns before when
\* the client cannot be made or stdin cannot be read
AskStart(fault) ==
    /\ proc = NoProc
    /\ IF fault = "none"
       THEN /\ proc' = AskProc("Ask", "start", FALSE, 0, "none")
            /\ UNCHANGED out
       ELSE /\ proc' = AskProc("returned", "none", FALSE, 0, "none")
            /\ out' = Result("ask", <<>>, fault, "ok", "none",
                             Failed(NoBookmark, <<>>, <<>>,
                                    IF fault = "NewClient"
                                    THEN "failed to initialize AI client"
                                    ELSE "failed to read from stdin",
                                    <<>>, <<>>))
    /\ UNCHANGED <<bookmarks, nextId, history>>

\* line 74: client.Ask returns, with a response or with an error
AskReturns(err) ==
    /\ proc.kind = "ask"
    /\ proc.main = "Ask"
    /\ proc' = [proc EXCEPT !.main = "send", !.err = err]
    /\ UNCHANGED <<bookmarks, nextId, history, out>>

\* lines 138-144: showThinking starts the ticker and prints "Thinking "
SpinnerStart ==
    /\ proc.kind = "ask"
    /\ proc.spinner = "start"
    /\ proc' = [proc EXCEPT !.spinner = "select"]
    /\ UNCHANGED <<bookmarks, nextId, history, out>>

\* the runtime timer of a ticker that is not stopped: a tick is dropped when
\* ticker.C is full
Tick ==
    /\ proc.kind = "ask"
    /\ proc.spinner \in { "select", "frame", "clear" }
    /\ ~proc.tick
    /\ proc' = [proc EXCEPT !.tick = TRUE]
    /\ UNCHANGED <<bookmarks, nextId, history, out>>

\* line 150: the select takes the tick
SpinnerTick ==
    /\ proc.kind = "ask"
    /\ proc.spinner = "select"
    /\ proc.tick
    /\ proc' = [proc EXCEPT !.spinner = "frame", !.tick = FALSE]
    /\ UNCHANGED <<bookmarks, nextId, history, out>>

\* lines 151-152: the frame is printed, i++
SpinnerFrame ==
    /\ proc.kind = "ask"
    /\ proc.spinner = "frame"
    /\ proc' = [proc EXCEPT !.spinner = afterTick,
                            !.frame = (proc.frame + 1) % FrameCount]
    /\ UNCHANGED <<bookmarks, nextId, history, out>>

\* lines 75 and 147: done is unbuffered, the send of runAsk and the receive
\* of the select happen together
Receive ==
    /\ proc.kind = "ask"
    /\ proc.main = "send"
    /\ proc.spinner = "select"
    /\ proc' = [proc EXCEPT !.main = "report", !.spinner = "clear"]
    /\ UNCHANGED <<bookmarks, nextId, history, out>>

\* lines 148-149 and 139: the line is cleared, the ticker stopped
SpinnerReturn ==
    /\ proc.kind = "ask"
    /\ proc.spinner = "clear"
    /\ proc' = [proc EXCEPT !.spinner = "returned"]
    /\ UNCHANGED <<bookmarks, nextId, history, out>>

\* lines 77-83: runAsk returns the error or prints the response
Report ==
    /\ proc.kind = "ask"
    /\ proc.main = "report"
    /\ proc' = [proc EXCEPT !.main = "returned"]
    /\ out' = Result("ask", <<>>, "none", "ok", "none", report(proc.err))
    /\ UNCHANGED <<bookmarks, nextId, history>>

\* main returns: the process exits and ends a goroutine that has not returned
Exit ==
    /\ proc.kind = "ask"
    /\ proc.main = "returned"
    /\ proc' = [proc EXCEPT !.main = "exited",
                            !.spinner = IF proc.spinner \in { "none", "returned" }
                                        THEN proc.spinner ELSE "killed"]
    /\ UNCHANGED <<bookmarks, nextId, history, out>>

NextAsk ==
    \/ \E fault \in AskFaults : AskStart(fault)
    \/ \E err \in AskErrors : AskReturns(err)
    \/ SpinnerStart
    \/ Tick
    \/ SpinnerTick
    \/ SpinnerFrame
    \/ Receive
    \/ SpinnerReturn
    \/ Report
    \/ Exit

SpecAsk == Init /\ [][NextAsk]_vars

\* Each goroutine that can run does run.  A select with several ready cases
\* takes one of them at random, so a receive from done that is ready again
\* and again is taken: strong fairness.  Nothing is assumed of the timer or
\* of the AI call.
SpecAskFair ==
    /\ SpecAsk
    /\ WF_vars(SpinnerStart)
    /\ WF_vars(SpinnerFrame)
    /\ SF_vars(Receive)
    /\ WF_vars(SpinnerReturn)
    /\ WF_vars(Report)
    /\ WF_vars(Exit)

----------------------------------------------------------------------------
(* The search of the Docker backend (internal/db/bookmarks.go,             *)
(* searchBookmarksDocker): the sqlite3 shell prints one line per row, the  *)
(* fields separated by "|", and the lines are parsed back                  *)

Digits == <<"0", "1", "2", "3", "4", "5", "6", "7", "8", "9">>

\* the decimal digits of n >= 0, as the sqlite3 shell prints an integer
RECURSIVE Itoa(_)
Itoa(n) ==
    IF n < 10 THEN <<Digits[n + 1]>> ELSE Itoa(n \div 10) \o <<Digits[(n % 10) + 1]>>

\* strconv.Atoi with its error dropped: 0 for a text that is not a number
RECURSIVE AtoiFrom(_, _)
AtoiFrom(s, acc) ==
    IF s = <<>> THEN acc
    ELSE IF \E d \in DOMAIN Digits : Digits[d] = Head(s)
    THEN AtoiFrom(Tail(s), 10 * acc + (CHOOSE d \in DOMAIN Digits : Digits[d] = Head(s)) - 1)
    ELSE 0 - 1

Atoi(s) ==
    IF s = <<>> \/ AtoiFrom(s, 0) < 0 THEN 0 ELSE AtoiFrom(s, 0)

\* strings.Split(s, sep) for a separator of one character; cur is the part
\* being read
RECURSIVE Split(_, _, _)
Split(s, sep, cur) ==
    IF s = <<>> THEN <<cur>>
    ELSE IF Head(s) = sep THEN <<cur>> \o Split(Tail(s), sep, <<>>)
    ELSE Split(Tail(s), sep, Append(cur, Head(s)))

\* strings.TrimSpace of the output of the shell
RECURSIVE TrimOutput(_)
TrimOutput(s) ==
    IF s # <<>> /\ Head(s) \in Space THEN TrimOutput(Tail(s))
    ELSE IF s # <<>> /\ s[Len(s)] \in Space THEN TrimOutput(SubSeq(s, 1, Len(s) - 1))
    ELSE s

\* the line the sqlite3 shell prints for a row of bookmarks (created_at is
\* the second counted from the zero time)
sqliteLine(b) ==
    Itoa(b.ID) \o <<"|">> \o b.Alias \o <<"|">> \o b.Path \o <<"|">> \o Itoa(b.CreatedAt)

\* cmd.Output(): every line ends with a newline
RECURSIVE sqliteOutput(_)
sqliteOutput(rows) ==
    IF rows = <<>> THEN <<>>
    ELSE sqliteLine(Head(rows)) \o <<"\n">> \o sqliteOutput(Tail(rows))

\* lines 298-317: the bookmarks parsed from the lines, a line that is empty
\* or has fewer than four fields being skipped
RECURSIVE parseLines(_)
parseLines(lines) ==
    IF lines = <<>> THEN <<>>
    ELSE IF Head(lines) = <<>> \/ Len(Split(Head(lines), "|", <<>>)) < 4
    THEN parseLines(Tail(lines))
    ELSE <<[ID |-> Atoi(Split(Head(lines), "|", <<>>)[1]),
            Alias |-> Split(Head(lines), "|", <<>>)[2],
            Path |-> Split(Head(lines), "|", <<>>)[3],
            CreatedAt |-> Atoi(Split(Head(lines), "|", <<>>)[4])]>>
         \o parseLines(Tail(lines))

\* lines 282-320: the same WHERE clause with the pattern written into the
\* statement (no query of the universe holds a quote), ORDER BY alias
searchBookmarksDocker(query) ==
    parseLines(Split(TrimOutput(sqliteOutput(
        OrderByAlias(SelectSeq(bookmarks, LAMBDA b : searchWhere(b, query))))),
        "\n", <<>>))

\* the queries FuzzySearch passes on: lowercased, trimmed, not empty
BackendQueries == { ToLower(TrimSpace(q)) : q \in SearchQueries } \ { <<>> }

\* searchBookmarks called on the store as it is, in file mode or in Docker mode
SearchBookmarks(query, isDockerMode) ==
    /\ out' = Result(IF isDockerMode THEN "searchBookmarksDocker" ELSE "searchBookmarks",
                     query, "none", "ok", "none",
                     Outcome(NoBookmark,
                             IF isDockerMode THEN searchBookmarksDocker(query)
                             ELSE searchBookmarks(query),
                             <<>>, <<>>, 0, <<Call("searchBookmarks", query)>>, <<>>))
    /\ UNCHANGED <<bookmarks, nextId, history, proc>>

NextBackend ==
    \E query \in BackendQueries, isDockerMode \in BOOLEAN :
        SearchBookmarks(query, isDockerMode)

SpecBackend == InitSearch /\ [][NextBackend]_vars

----------------------------------------------------------------------------
(* Vocabulary of the properties *)

\* the query as FuzzySearch compares it: trimmed and lowercased
Normalized(query) == ToLower(TrimSpace(query))

\* q is a literal substring of the lowercased alias or of the lowercased path
LiteralMatch(b, q) == Contains(ToLower(b.Alias), q) \/ Contains(ToLower(b.Path), q)

\* the rank of the documentation, by literal comparison
LiteralRank(b, q) ==
    IF ToLower(b.Alias) = q THEN 1
    ELSE IF HasPrefix(ToLower(b.Alias), q) THEN 2
    ELSE IF HasPrefix(ToLower(b.Path), q) THEN 3
    ELSE 4

Stored == Range(bookmarks)

BookmarkOrigin(r) == r.ID > 0
HistoryOrigin(r) == r.ID < 0

\* the second of the latest visit of path p
LastAccess(p) ==
    LET ts == { history[i].accessed_at : i \in { j \in DOMAIN history : history[j].path = p } }
    IN  CHOOSE t \in ts : \A u \in ts : u <= t

StorageFault(f) == f \in {"New", "GetBookmark", "FuzzySearch"}

Candidates(stderr) == SelectSeq(stderr, LAMBDA l : l.kind = "candidate")

\* the step is an invocation of `go` in which the store answers and which
\* resolves to exactly one navigation target; Target is that target
OneTarget(query, fault) ==
    /\ ~StorageFault(fault)
    /\ GetBookmark(query) # NoBookmark \/ Len(FuzzySearch(query)) = 1

Target(query) ==
    IF GetBookmark(query) # NoBookmark THEN GetBookmark(query)[1]
    ELSE FuzzySearch(query)[1]

\* position of the first call of fn in a call list, 0 when absent
CallIndex(calls, fn) ==
    IF \E i \in DOMAIN calls : calls[i].fn = fn
    THEN CHOOSE i \in DOMAIN calls :
            calls[i].fn = fn /\ \A j \in 1..(i - 1) : calls[j].fn # fn
    ELSE 0

----------------------------------------------------------------------------
(* Properties of `go` *)

\* C1: when the exact lookup misses and FuzzySearch returns more than one
\* candidate, `go` prints nothing on stdout, appends no history row, lists every
\* candidate on stderr in order, and ends with a non-zero exit status.
C1_AmbiguousNoNavigation ==
    [][ (/\ out'.op = "go"
         /\ ~StorageFault(out'.fault)
         /\ GetBookmark(out'.arg) = NoBookmark
         /\ Len(FuzzySearch(out'.arg)) > 1)
        => LET results == FuzzySearch(out'.arg)
               listed  == Candidates(out'.res.stderr)
           IN  /\ out'.res.stdout = <<>>
               /\ history' = history
               /\ ~Called(out'.res, "AddNavigationHistory")
               /\ out'.res.exit # 0
               /\ Len(listed) = Len(results)
               /\ \A i \in DOMAIN results :
                     /\ listed[i].path = results[i].Path
                     /\ BookmarkOrigin(results[i]) => listed[i].alias = results[i].Alias
      ]_vars

C1_Witness ==
    /\ out.op = "go"
    /\ out.fault = "none"
    /\ GetBookmark(out.arg) = NoBookmark
    /\ Len(FuzzySearch(out.arg)) > 1
    /\ Len(Candidates(out.res.stderr)) > 1
    /\ out.res.exit = 1

\* C2: the exact alias lookup on the raw query comes first: on a hit `go`
\* navigates to that bookmark's path and never calls FuzzySearch, whatever
\* FuzzySearch would return; FuzzySearch is called only after GetBookmark
\* returned not-found.
C2_ExactFirst ==
    [][ out'.op = "go" =>
        LET res == out'.res
        IN  /\ (~StorageFault(out'.fault) /\ GetBookmark(out'.arg) # NoBookmark)
                  => /\ ~Called(res, "FuzzySearch")
                     /\ \E i \in DOMAIN res.calls :
                           res.calls[i] = Call("AddNavigationHistory",
                                               GetBookmark(out'.arg)[1].Path)
                     /\ out'.stat # "notexist"
                           => res.stdout = <<GetBookmark(out'.arg)[1].Path>> /\ res.exit = 0
            /\ Called(res, "FuzzySearch")
                  => /\ GetBookmark(out'.arg) = NoBookmark
                     /\ CallIndex(res.calls, "GetBookmark") > 0
                     /\ CallIndex(res.calls, "GetBookmark") < CallIndex(res.calls, "FuzzySearch")
                     /\ res.calls[CallIndex(res.calls, "GetBookmark")].arg = out'.arg
      ]_vars

C2_Witness ==
    /\ out.op = "go"
    /\ out.fault = "none"
    /\ GetBookmark(out.arg) # NoBookmark
    /\ Len(FuzzySearch(out.arg)) > 1
    /\ out.res.stdout = <<GetBookmark(out.arg)[1].Path>>
    /\ out.res.exit = 0

\* C8: `go` prints exactly the resolved path on stdout if and only if it exits
\* with status 0; with no match, an ambiguous match, a missing path or a storage
\* error it prints nothing on stdout, a diagnostic on stderr, and exits non-zero.
C8_StdoutIffSuccess ==
    [][ out'.op = "go" =>
        LET res   == out'.res
            q     == out'.arg
            nohit == ~StorageFault(out'.fault) /\ GetBookmark(q) = NoBookmark
        IN  /\ res.exit \in {0, 1}
            /\ res.exit = 0 <=> res.stdout # <<>>
            /\ res.exit = 0 => OneTarget(q, out'.fault) /\ res.stdout = <<Target(q).Path>>
            /\ res.exit # 0 => res.stdout = <<>> /\ res.stderr # <<>>
            /\ StorageFault(out'.fault) => res.exit # 0
            /\ (nohit /\ Len(FuzzySearch(q)) = 0) => res.exit # 0
            /\ (nohit /\ Len(FuzzySearch(q)) > 1) => res.exit # 0
            /\ (OneTarget(q, out'.fault) /\ out'.stat = "notexist") => res.exit # 0
      ]_vars

C8_Witness ==
    /\ out.op = "go"
    /\ out.stat = "notexist"
    /\ out.res.exit = 1
    /\ out.res.stdout = <<>>
    /\ out.res.stderr # <<>>
    /\ GetBookmark(out.arg) # NoBookmark

\* C9: resolving to exactly one candidate, `go` first records a history entry
\* for its path (the row is appended when the write succeeds), then checks the
\* path on disk and prints it; when the path no longer exists it reports an
\* error, and no bookmark is removed.
C9_SingleCandidate ==
    [][ (out'.op = "go" /\ OneTarget(out'.arg, out'.fault)) =>
        LET res == out'.res
            p   == Target(out'.arg).Path
        IN  /\ CallIndex(res.calls, "AddNavigationHistory") > 0
            /\ CallIndex(res.calls, "AddNavigationHistory") < CallIndex(res.calls, "Stat")
            /\ res.calls[CallIndex(res.calls, "AddNavigationHistory")].arg = p
            /\ res.calls[CallIndex(res.calls, "Stat")].arg = p
            /\ out'.fault = "none"
                  => /\ Len(history') = Len(history) + 1
                     /\ SubSeq(history', 1, Len(history)) = history
                     /\ history'[Len(history')].path = p
            /\ out'.stat # "notexist" => res.stdout = <<p>> /\ res.exit = 0
            /\ out'.stat = "notexist"
                  => /\ res.exit # 0
                     /\ \E i \in DOMAIN res.stderr : res.stderr[i].path = p
            /\ bookmarks' = bookmarks
      ]_vars

C9_Witness ==
    /\ out.op = "go"
    /\ out.fault = "none"
    /\ out.stat = "notexist"
    /\ GetBookmark(out.arg) # NoBookmark
    /\ out.res.exit = 1
    /\ history # <<>>
    /\ history[Len(history)].path = GetBookmark(out.arg)[1].Path

\* C10: when the history write of an invocation fails, stdout and the exit
\* status are those of the same invocation with a working history write, and
\* stderr is the same with one warning added; nothing is written.
C10_HistoryFailureHarmless ==
    [][ (out'.op = "go" /\ out'.fault = "AddNavigationHistory") =>
        LET res == out'.res
            ok  == runGo(out'.arg, "none", out'.stat)
        IN  /\ res.stdout = ok.stdout
            /\ res.exit = ok.exit
            /\ Len(res.stderr) = Len(ok.stderr) + 1
            /\ SelectSeq(res.stderr, LAMBDA l : l.kind # "Warning: failed to add to navigation history")
                  = ok.stderr
            /\ history' = history
      ]_vars

C10_Witness ==
    /\ out.op = "go"
    /\ out.fault = "AddNavigationHistory"
    /\ out.res.exit = 0
    /\ out.res.stdout # <<>>
    /\ Len(out.res.stderr) = 1

----------------------------------------------------------------------------
(* Properties of FuzzySearch *)

Searched == out.op = "FuzzySearch"
Results == out.res.results

\* the LIKE wildcards, which searchBookmarks and searchHistory do not escape
Wildcards == {"%", "_"}
HasWildcard(q) == \E i \in DOMAIN q : q[i] \in Wildcards

\* the distinct history paths that contain q literally
MatchingPaths(q) ==
    { history[i].path : i \in { j \in DOMAIN history : Contains(ToLower(history[j].path), q) } }

\* C3 (as claimed): for a non-empty normalized query the bookmark-origin result
\* is exactly the set of bookmarks whose lowercased alias or lowercased path
\* contains the query as a literal substring.
C3_ExactlyLiteralMatches ==
    (Searched /\ Normalized(out.arg) # <<>>)
    => { Results[i] : i \in { j \in DOMAIN Results : BookmarkOrigin(Results[j]) } }
          = { b \in Stored : LiteralMatch(b, Normalized(out.arg)) }

\* C4 (as claimed): matching bookmarks are returned in rank order: alias equal
\* to the query, then alias starting with it, then path starting with it, then
\* any other substring match.
C4_RankOrder ==
    (Searched /\ Normalized(out.arg) # <<>>)
    => \A i, j \in DOMAIN Results :
          (/\ i < j
           /\ BookmarkOrigin(Results[i]) /\ BookmarkOrigin(Results[j])
           /\ LiteralMatch(Results[i], Normalized(out.arg))
           /\ LiteralMatch(Results[j], Normalized(out.arg)))
          => LiteralRank(Results[i], Normalized(out.arg))
                <= LiteralRank(Results[j], Normalized(out.arg))

\* C5 (as claimed): bookmarks of the same rank are returned by alias ascending.
C5_TiesByAlias ==
    (Searched /\ Normalized(out.arg) # <<>>)
    => \A i, j \in DOMAIN Results :
          (/\ i < j
           /\ BookmarkOrigin(Results[i]) /\ BookmarkOrigin(Results[j])
           /\ searchRank(Results[i], Normalized(out.arg))
                 = searchRank(Results[j], Normalized(out.arg))
           /\ LiteralRank(Results[i], Normalized(out.arg))
                 = LiteralRank(Results[j], Normalized(out.arg)))
          => StrLess(Results[i].Alias, Results[j].Alias)

\* C6: when a stored bookmark matches the query, every candidate FuzzySearch
\* returns is a stored bookmark with a positive ID, whatever the history holds;
\* a history-origin candidate is returned only when no bookmark matches.
C6_BookmarksHideHistory ==
    Searched =>
       /\ (\E b \in Stored : LiteralMatch(b, Normalized(out.arg)))
             => /\ Results # <<>>
                /\ \A i \in DOMAIN Results :
                      Results[i] \in Stored /\ BookmarkOrigin(Results[i])
       /\ (\E i \in DOMAIN Results : HistoryOrigin(Results[i]))
             => /\ \A b \in Stored : ~LiteralMatch(b, Normalized(out.arg))
                /\ \A i \in DOMAIN Results : Results[i] \notin Stored

C6_Witness ==
    /\ Searched
    /\ Normalized(out.arg) # <<>>
    /\ \E b \in Stored : LiteralMatch(b, Normalized(out.arg))
    /\ MatchingPaths(Normalized(out.arg)) # {}
    /\ Results # <<>>
    /\ \A i \in DOMAIN Results : BookmarkOrigin(Results[i])

\* C7 (as claimed): the history fallback returns at most 10 candidates with
\* pairwise distinct paths, most recent access first, namely the most recently
\* accessed paths that contain the query (here for a query free of wildcards).
C7_MostRecentFirst ==
    (/\ Searched
     /\ Normalized(out.arg) # <<>>
     /\ ~HasWildcard(Normalized(out.arg))
     /\ \A b \in Stored : ~LiteralMatch(b, Normalized(out.arg)))
    => LET q == Normalized(out.arg)
           paths == { Results[i].Path : i \in DOMAIN Results }
       IN  /\ Len(Results) <= HistoryLimit
           /\ \A i, j \in DOMAIN Results : i # j => Results[i].Path # Results[j].Path
           /\ paths \subseteq MatchingPaths(q)
           /\ Cardinality(MatchingPaths(q)) <= HistoryLimit => paths = MatchingPaths(q)
           /\ \A p \in MatchingPaths(q) \ paths :
                 \A r \in paths : LastAccess(p) <= LastAccess(r)
           /\ \A i, j \in DOMAIN Results :
                 i < j => LastAccess(Results[i].Path) >= LastAccess(Results[j].Path)

----------------------------------------------------------------------------
(* Properties of the store operations *)

C12_DuplicateRejected ==
    [][ /\ \A a \in StoreAliases, p \in Paths :
              (out'.op = "AddBookmark" /\ out'.arg = <<a, p>> /\ GetBookmark(a) # NoBookmark)
              => /\ out'.err = "failed to add bookmark"
                 /\ bookmarks' = bookmarks
                 /\ history' = history
        /\ \A i, j \in DOMAIN bookmarks' :
              i # j => bookmarks'[i].Alias # bookmarks'[j].Alias
      ]_vars

C12_Witness ==
    /\ out.op = "AddBookmark"
    /\ out.err = "failed to add bookmark"
    /\ Len(bookmarks) = 2
    /\ GetBookmark(out.arg[1]) # NoBookmark
    /\ GetBookmark(out.arg[1])[1].Path # out.arg[2]

\* C13: for an alias that is not stored (never added, or removed by a
\* successful RemoveBookmark), GetBookmark returns the nil bookmark and no
\* error, as long as the statement itself does not fail.
C13_NotFoundIsNotAnError ==
    [][ \A a \in StoreAliases :
          /\ (out'.op = "GetBookmark" /\ out'.arg = a /\ out'.fault = "none"
                  /\ GetBookmark(a) = NoBookmark)
                => out'.res.bookmark = NoBookmark /\ out'.err = "none"
          /\ (out'.op = "RemoveBookmark" /\ out'.arg = a /\ out'.err = "none")
                => GetBookmark(a)' = NoBookmark
      ]_vars

C13_Witness ==
    /\ out.op = "GetBookmark"
    /\ out.fault = "none"
    /\ out.err = "none"
    /\ out.res.bookmark = NoBookmark
    /\ nextId = 2
    /\ bookmarks = <<>>

C15_ListSortedComplete ==
    out.op = "ListBookmarks"
    => /\ Len(Results) = Len(bookmarks)
       /\ Range(Results) = Range(bookmarks)
       /\ \A i, j \in DOMAIN Results :
             i < j => StrLess(Results[i].Alias, Results[j].Alias)

C15_Witness ==
    /\ out.op = "ListBookmarks"
    /\ Len(Results) = 2
    /\ Results[1].ID > Results[2].ID
    /\ Results[1].Alias = <<"A", "b">>
    /\ Results[2].Alias = <<"a">>

----------------------------------------------------------------------------
(* Further properties of FuzzySearch *)

\* C16: for a query that is empty after trimming, FuzzySearch returns the
\* ordered list ListBookmarks returns: every stored bookmark, no history
\* candidate, whatever the history holds.
C16_EmptyQueryLists ==
    (Searched /\ Normalized(out.arg) = <<>>)
    => /\ Results = ListBookmarks
       /\ Range(Results) = Stored
       /\ \A i \in DOMAIN Results : BookmarkOrigin(Results[i])

C16_Witness ==
    /\ Searched
    /\ out.arg = <<" ">>
    /\ history # <<>>
    /\ Len(Results) = 2
    /\ Results[1].ID > Results[2].ID
    /\ Results = ListBookmarks

----------------------------------------------------------------------------
(* Properties of `bookmark add` *)

\* the line "Bookmark '<alias>' added for: <path>" of a successful invocation
AddedLine(res) == res.stdout[Len(res.stdout)]

\* C18 (as claimed): no stored bookmark has an empty alias.
C18_NoEmptyAlias ==
    \A i \in DOMAIN bookmarks : bookmarks[i].Alias # <<>>

\* C19: when `bookmark add` succeeds on an alias that is already stored,
\* exactly one bookmark has that alias afterwards, its path is the absolute
\* path of the path argument, and every other bookmark and the history are
\* unchanged.
C19_UpdateReplaces ==
    [][ \A a \in StoreAliases :
          (/\ out'.op = "bookmark add"
           /\ out'.res.exit = 0
           /\ AddedLine(out'.res).alias = a
           /\ GetBookmark(a) # NoBookmark)
          => /\ out'.res.bookmark = GetBookmark(a)
             /\ Cardinality({ i \in DOMAIN bookmarks' : bookmarks'[i].Alias = a }) = 1
             /\ GetBookmark(a)'[1].Path = AddedLine(out'.res).path
             /\ HasPrefix(GetBookmark(a)'[1].Path, <<"/">>)
             /\ \A wd \in Wds :
                   Len(out'.arg) = 2 => GetBookmark(a)'[1].Path = Abs(out'.arg[2], wd)
             /\ Len(out'.arg) = 2 => out'.arg[1] = a
             /\ SelectSeq(bookmarks', LAMBDA b : b.Alias # a)
                   = SelectSeq(bookmarks, LAMBDA b : b.Alias # a)
             /\ history' = history
      ]_vars

C19_Witness ==
    /\ out.op = "bookmark add"
    /\ out.res.exit = 0
    /\ out.arg = << <<"a">>, <<"/", "a", "/">> >>
    /\ out.res.bookmark # NoBookmark
    /\ out.res.bookmark[1].Path = <<"/", "b">>
    /\ Len(bookmarks) = 2
    /\ bookmarks[2].Alias = <<"a">>
    /\ bookmarks[2].Path = <<"/", "a">>
    /\ bookmarks[2].ID = 3

----------------------------------------------------------------------------
(* Properties of the navigation history *)

\* C20: the history is append-only: AddNavigationHistory(path) adds exactly
\* one row for the path, also when the path is already present, and no store
\* operation removes or changes a row.
C20_HistoryAppendOnly ==
    [][ /\ Len(history') >= Len(history)
        /\ SubSeq(history', 1, Len(history)) = history
        /\ out'.op = "AddNavigationHistory"
              => /\ Len(history') = Len(history) + 1
                 /\ history'[Len(history')].path = out'.arg
        /\ out'.op \in {"AddBookmark", "RemoveBookmark", "GetBookmark", "ListBookmarks",
                        "FuzzySearch"}
              => history' = history
      ]_vars

C20_Witness ==
    /\ out.op = "AddNavigationHistory"
    /\ Len(history) = 2
    /\ history[1].path = history[2].path
    /\ history[2].path = out.arg
    /\ bookmarks # <<>>

----------------------------------------------------------------------------
(* Properties of the history candidates *)

----------------------------------------------------------------------------
(* Properties of the detectors and of `do` *)

\* strings.HasSuffix
HasSuffix(s, suffix) ==
    Len(suffix) <= Len(s) /\ SubSeq(s, Len(s) - Len(suffix) + 1, Len(s)) = suffix

\* the probe of the entry `name` found it: it is present and os.Stat succeeds
Found(dir, failing, name) == name \in dir /\ name # failing

SuffixPy == <<".", "p", "y">>
SuffixGo == <<".", "g", "o">>
PrefixTest == <<"t", "e", "s", "t", "_">>
SuffixTestPy == <<"_", "t", "e", "s", "t", ".", "p", "y">>

\* a file of the directory follows a test-file naming convention
HasTestFile(dir) ==
    \E name \in dir :
        \/ HasPrefix(name, PrefixTest) /\ HasSuffix(name, SuffixPy)
              /\ Len(name) >= Len(PrefixTest) + Len(SuffixPy)
        \/ HasSuffix(name, SuffixTestPy)

\* the trigger condition of detector d, as documented
Trigger(d, dir, failing) ==
    CASE d = 1 -> Found(dir, failing, Files.Git)
      [] d = 2 -> Found(dir, failing, Files.PackageJson)
      [] d = 3 -> \/ Found(dir, failing, Files.PyProject)
                  \/ Found(dir, failing, Files.Requirements)
                  \/ Found(dir, failing, Files.Pipfile)
                  \/ \E name \in dir : HasSuffix(name, SuffixPy)
      [] d = 4 -> \/ Found(dir, failing, Files.GoMod)
                  \/ \E name \in dir : HasSuffix(name, SuffixGo)
      [] d = 5 -> \/ Found(dir, failing, Files.Dockerfile)
                  \/ Found(dir, failing, Files.ComposeYml)
                  \/ Found(dir, failing, Files.ComposeYaml)
      [] d = 6 -> \/ Found(dir, failing, Files.Makefile)
                  \/ Found(dir, failing, Files.LowerMakefile)

\* the outputs of the six detectors in registry order
Detected(dir, failing) ==
    DetectGitContext(dir, failing) \o DetectNodeContext(dir, failing)
        \o DetectPythonContext(dir, failing) \o DetectGoContext(dir, failing)
        \o DetectDockerContext(dir, failing) \o DetectMakeContext(dir, failing)

GeneralNames ==
    <<"Open current directory", "List directory contents", "Show disk usage",
      "Find large files">>

Names(actions) == [i \in DOMAIN actions |-> actions[i].Name]

DoRun == out.op = "do"
DetectorRun == out.op = "detect"

\* the characters of the words of an argument list, in order
RECURSIVE Flatten(_)
Flatten(words) == IF words = <<>> THEN <<>> ELSE Head(words) \o Flatten(Tail(words))

Whitespace(command) == \A i \in DOMAIN command : command[i] \in Space

\* C22 (as claimed): when none of the six detectors fires, the list `do`
\* aggregates for selection is exactly the four general-purpose actions.
C22_NoContextShowsGeneral ==
    (DoRun /\ \A d \in 1..DetectorCount :
                  Detector(d, out.arg.dir, out.arg.failing) = <<>>)
    => /\ out.res.actions = generalActions(out.arg.platform)
       /\ out.res.items = GeneralNames

\* C23: when at least one detector fires, the list `do` presents is the
\* outputs of the detectors in registry order (version control, Node, Python,
\* Go, containers, Make), nothing merged or dropped, followed by the four
\* general-purpose actions; with only the version-control directory present
\* it is the version-control actions followed by the four general actions.
C23_RegistryOrderThenGeneral ==
    DoRun =>
       LET dir == out.arg.dir
           failing == out.arg.failing
           shown == out.res.actions
           n == Len(Detected(dir, failing))
       IN  /\ n > 0
              => /\ shown = Detected(dir, failing) \o generalActions(out.arg.platform)
                 /\ Len(shown) = n + 4
                 /\ out.res.items = Names(shown)
                 /\ SubSeq(out.res.items, n + 1, n + 4) = GeneralNames
           /\ (dir = { Files.Git } /\ failing = NoFile)
              => /\ SubSeq(shown, 1, Len(Suggestions.Git)) = Suggestions.Git
                 /\ Names(SubSeq(shown, Len(Suggestions.Git) + 1, Len(shown))) = GeneralNames

C23_Witness ==
    /\ DoRun
    /\ out.arg.dir = { Files.Git, Files.PackageJson, Files.Makefile }
    /\ out.arg.failing = NoFile
    /\ Len(out.res.items) = 11 + 7 + 5 + 4
    /\ out.res.items[16] = "Run tests"
    /\ out.res.items[23] = "Run tests"
    /\ out.res.actions[16].Command # out.res.actions[23].Command
    /\ out.res.items[27] = "Find large files"

\* C24 (as claimed): a detector returns an empty list exactly when its trigger
\* condition is absent and a non-empty list exactly when it is present, for
\* every outcome of the probes, those that fail for another reason than
\* absence included.
C24_EmptyIffNoTrigger ==
    DetectorRun =>
       (out.res.actions = <<>>
           <=> ~Trigger(out.arg.detector, out.arg.dir, out.arg.failing))

\* the actions of the Python detector without the action of setup.py
PythonSuggestions(dir, failing) ==
    Range(Suggestions.Python)
        \cup (IF Found(dir, failing, Files.Requirements)
              THEN Range(Suggestions.Requirements) ELSE {})
        \cup (IF Found(dir, failing, Files.Pipfile) THEN Range(Suggestions.Pipenv) ELSE {})
        \cup (IF Found(dir, failing, Files.PyProject) THEN Range(Suggestions.PyProject) ELSE {})
        \cup (IF Found(dir, failing, Files.PytestIni) \/ HasTestFile(dir)
              THEN Range(Suggestions.Pytest) ELSE {})

PythonRun == DetectorRun /\ out.arg.detector = 3 /\ out.res.actions # <<>>

----------------------------------------------------------------------------
(* Properties of the storage connection *)

\* the handle of an invocation, the connection it opened, the sql.Open calls
\* that succeeded, the db.New calls, and whether every call had the handle it
\* needs (a store call an open handle, Close a non-nil one, New none)
Held(db, conn, opens, news, ok) ==
    [db |-> db, conn |-> conn, opens |-> opens, news |-> news, ok |-> ok]

StoreCalls ==
    { "GetBookmark", "FuzzySearch", "AddNavigationHistory", "AddBookmark",
      "RemoveBookmark", "ListBookmarks" }

\* the calls of one invocation applied in order to the handle, New failing at
\* the step fault
RECURSIVE Replay(_, _, _, _)
Replay(calls, isDockerMode, fault, st) ==
    IF calls = <<>> THEN st
    ELSE IF Head(calls).fn = "New"
    THEN Replay(Tail(calls), isDockerMode, fault,
                Held(New(isDockerMode, fault).db, New(isDockerMode, fault).conn,
                     st.opens + New(isDockerMode, fault).opens, st.news + 1,
                     st.ok /\ st.db.nil))
    ELSE IF Head(calls).fn = "Close"
    THEN Replay(Tail(calls), isDockerMode, fault,
                Held(Close(st.db, "none").db,
                     IF st.db.nil THEN st.conn ELSE Close(st.db, "none").db.conn,
                     st.opens, st.news, st.ok /\ ~st.db.nil))
    ELSE IF Head(calls).fn \in StoreCalls
    THEN Replay(Tail(calls), isDockerMode, fault,
                Held(st.db, st.conn, st.opens, st.news,
                     st.ok /\ ~st.db.nil /\ st.db.conn # "closed"))
    ELSE Replay(Tail(calls), isDockerMode, fault, st)

StoreCommands == { "go", "bookmark add", "bookmark list", "bookmark remove" }

\* the invocation opened the store at most once and left no connection open
Released(st) == st.ok /\ st.news <= 1 /\ st.opens <= 1 /\ st.conn # "open"

\* C27: whatever the mode and whatever step of New fails, a bookmark or go
\* command calls New at most once, opens at most one connection and leaves
\* none open when it returns, with or without an error; a New that fails
\* leaves no connection open; and a Close after the first returns no error.
C27_ConnectionReleased ==
    /\ out.op \in StoreCommands =>
          \A isDockerMode \in BOOLEAN, fault \in NewFaults :
              (out.fault = "New" <=> New(isDockerMode, fault).db.nil) =>
                  Released(Replay(out.res.calls, isDockerMode, fault,
                                  Held(NoDB, "nil", 0, 0, TRUE)))
    /\ proc.kind = "db" =>
          /\ proc.opens <= 1
          /\ proc.db.nil => proc.conn # "open"
          /\ proc.closes >= 1 => proc.conn # "open"
          /\ proc.closes >= 2 => proc.err = "none"

\* a `bookmark remove` that returns the error of RemoveBookmark after the
\* store was opened
C27_Witness ==
    /\ out.op = "bookmark remove"
    /\ out.fault = "RemoveBookmark"
    /\ out.res.exit = 1
    /\ Called(out.res, "New")
    /\ Called(out.res, "Close")

----------------------------------------------------------------------------
(* Properties of the spinner *)

AskAt(pcs) == proc.kind = "ask" /\ proc.main \in pcs
SpinnerAt(pcs) == proc.kind = "ask" /\ proc.spinner \in pcs

\* C28: whenever client.Ask has returned and runAsk is at the send on done,
\* the send is eventually received, whatever ticks arrive meanwhile; the
\* spinner goroutine then ends (it returns, or the process exits first); and
\* runAsk goes on to report the response or the error and returns.
C28_SpinnerNeverDeadlocks ==
    /\ AskAt({"send"}) ~> SpinnerAt({"clear", "returned", "killed"})
    /\ AskAt({"send"}) ~> SpinnerAt({"returned", "killed"})
    /\ AskAt({"send"}) ~>
          (AskAt({"returned", "exited"}) /\ out.op = "ask" /\ out.res = report(proc.err))

\* the AI call failed after the spinner printed frames; the send was
\* received, the spinner returned and runAsk reported the error
C28_Witness ==
    /\ AskAt({"exited"})
    /\ SpinnerAt({"returned"})
    /\ proc.err = "AI request failed"
    /\ proc.frame > 1
    /\ out.res.exit = 1

----------------------------------------------------------------------------
(* Properties of the two backends *)

\* C29: on the same store and for the same query, searchBookmarks in Docker
\* mode returns the bookmarks file mode returns, in the same order.
C29_DockerSameAsFile ==
    out.op = "searchBookmarksDocker" => out.res.results = searchBookmarks(out.arg)

----------------------------------------------------------------------------
(* Properties of the history written by the commands *)

PathsOf(rows) == { rows[i].Path : i \in DOMAIN rows }
Visited(h) == { h[i].path : i \in DOMAIN h }

\* C30: from the empty store and through `bookmark add`, `bookmark list`,
\* `bookmark remove` and `go` only, every path of the navigation history was
\* the path of a bookmark at that moment or before.  The history starts
\* empty and every step keeps this: a path new to the history is the path of
\* a bookmark stored when the step is taken, and every other path of the
\* history was in it before the step.
C30_HistoryOnlyBookmarkedPaths ==
    [][Visited(history') \subseteq
          (Visited(history) \cup PathsOf(bookmarks) \cup PathsOf(bookmarks'))]_vars

\* `go` followed a history candidate to the path of a bookmark that has
\* since been removed, and recorded the visit
C30_Witness ==
    /\ out.op = "go"
    /\ Len(out.res.results) = 1
    /\ out.res.results[1].ID < 0
    /\ out.res.writes = <<out.res.results[1].Path>>
    /\ Len(history) = 2
    /\ history[2].path = out.res.results[1].Path
    /\ out.res.results[1].Path \notin PathsOf(bookmarks)

====
